---- MODULE Spec2Model ----
(***************************************************************************)
(* Route-optimization engine: input validation (BaseSolver), the greedy    *)
(* nearest-neighbour solver (GreedySolver) and the genetic solver          *)
(* (GeneticSolver), with the constraint and travel-time kernels they call. *)
(*                                                                         *)
(* Units.  Python floats and datetimes are modelled by exact integers:     *)
(*   distance  : 1/1000 mile   (matrix entries)                            *)
(*   time      : 1/100 minute  (datetimes are offsets from a day origin,   *)
(*               estimate_travel_time rounds to 2 decimals of a minute)    *)
(*   hours     : 1/100 minute  (x hours = 6000 * x)                        *)
(*   rounded distance fields (round(., 2)) : 1/100 mile                    *)
(*   utilization (round(., 1))             : 1/10 percent                  *)
(*   fitness   : 1/3000 (so that every penalty term is an integer)         *)
(* Work-order ids are strings in the source; an id is modelled by its      *)
(* rank in lexicographic order, so sorted() is ascending numeric order.    *)
(* Indices are 1-based: nodes 1..T are technician homes, T+1..T+W orders.  *)
(***************************************************************************)
EXTENDS Integers, Sequences, FiniteSets, TLC

VARIABLES
    work_orders,          \* self.work_orders
    technicians,          \* self.technicians
    distance_matrix,      \* self.distance_matrix
    config,               \* self.config
    algorithm,            \* which solver class was constructed
    pc,                   \* position of the solve
    error,                \* exception raised ("" when none)
    v_idx,                \* technician whose route is being built
    assigned,             \* greedy: set of assigned work-order indices
    cur,                  \* route under construction (locals of the route loop)
    routes,               \* routes completed so far
    total_distance,       \* accumulator of _solve_impl / _decode_solution
    total_duration,       \* accumulator of _solve_impl / _decode_solution
    result,               \* OptimizationResult returned by solve()
    rng,                  \* state of the process-wide random module
    population,           \* genetic: current population (sorted by fitness)
    gen,                  \* genetic: generations completed
    convergence_history,  \* genetic: best fitness per generation
    run,                  \* 1 for the first solve, 2 for a repeated solve
    prev_result,          \* result of the first solve, kept for comparison
    solution,             \* vrp: assignment returned by the routing engine
    vr_input,             \* arguments of a validate_route call
    violations            \* list returned by validate_route

vars == <<work_orders, technicians, distance_matrix, config, algorithm, pc,
          error, v_idx, assigned, cur, routes, total_distance, total_duration,
          result, rng, population, gen, convergence_history, run, prev_result,
          solution, vr_input, violations>>

-----------------------------------------------------------------------------
(* Bounds of the model *)

MaxOrders == 3
MaxTechs == 2

-----------------------------------------------------------------------------
(* Arithmetic helpers *)

Abs(x) == IF x < 0 THEN -x ELSE x

Min(a, b) == IF a <= b THEN a ELSE b

\* round() of the rational n/d (d > 0) to an integer, ties to even
RoundDiv(n, d) ==
    LET q == n \div d
        r == n % d
    IN  IF 2 * r < d THEN q
        ELSE IF 2 * r > d THEN q + 1
        ELSE IF q % 2 = 0 THEN q ELSE q + 1

\* dict.get(key, default)
Get(rec, key, default) == IF key \in DOMAIN rec THEN rec[key] ELSE default

Minutes(m) == m * 100

Hours(h) == h * 6000

\* the list [f[lo], ..., f[hi]]
RECURSIVE SeqRange(_, _, _)
SeqRange(f, lo, hi) ==
    IF lo > hi THEN <<>>
    ELSE IF lo = hi THEN <<f[lo]>>
    ELSE SeqRange(f, lo, (lo + hi) \div 2) \o SeqRange(f, (lo + hi) \div 2 + 1, hi)

\* the list [f[1], ..., f[n]]
SeqFrom(f, n) == SeqRange(f, 1, n)

\* sorted(set) for a set of integers
RECURSIVE SortedSet(_)
SortedSet(S) ==
    IF S = {} THEN <<>>
    ELSE LET m == CHOOSE x \in S : \A y \in S : x <= y
         IN  <<m>> \o SortedSet(S \ {m})

\* list.sort(key=...) / sorted(key=...): stable, ascending by the field key
\* an element goes behind the elements of smaller key and behind the earlier
\* elements of equal key
StableSortByKey(s) ==
    LET n == Len(s)
        before(i) == {j \in 1..n : \/ s[j].key < s[i].key
                                   \/ s[j].key = s[i].key /\ j < i}
        place(pos) ==
            IF Len(pos) = 0 THEN <<>>
            ELSE SeqFrom([p \in 1..n |-> s[CHOOSE i \in 1..n : pos[i] = p]], n)
    IN  IF n = 0 THEN <<>>
        ELSE place(SeqFrom([i \in 1..n |-> Cardinality(before(i)) + 1], n))

-----------------------------------------------------------------------------
(* Inputs: work orders, technicians, distance matrix, configuration *)

REQUIRED_WORK_ORDER_KEYS ==
    {"id", "property_id", "lat", "lng", "priority", "required_skills",
     "duration_minutes", "time_window_start", "time_window_end"}

REQUIRED_TECHNICIAN_KEYS ==
    {"id", "name", "skills", "home_lat", "home_lng", "max_hours",
     "shift_start", "shift_end"}

\* Work orders the inputs are drawn from.  lat is a position in miles on a
\* line (lng = 0); the input order of the ids is not the sorted order.
OrderPool == <<
    [id |-> 5, property_id |-> 105, lat |-> 10, lng |-> 0,
     priority |-> "emergency", required_skills |-> {"hvac"},
     duration_minutes |-> 30,
     time_window_start |-> Minutes(0), time_window_end |-> Minutes(480)],
    [id |-> 2, property_id |-> 102, lat |-> 10, lng |-> 0,
     priority |-> "low", required_skills |-> {},
     duration_minutes |-> 30,
     time_window_start |-> Minutes(0), time_window_end |-> Minutes(480)],
    [id |-> 4, property_id |-> 104, lat |-> 0, lng |-> 0,
     priority |-> "low", required_skills |-> {},
     duration_minutes |-> 30,
     time_window_start |-> Minutes(0), time_window_end |-> Minutes(480)],
    [id |-> 1, property_id |-> 101, lat |-> 5, lng |-> 0,
     priority |-> "HIGH", required_skills |-> {"plumbing"},
     duration_minutes |-> 60,
     time_window_start |-> Minutes(120), time_window_end |-> Minutes(180)],
    [id |-> 3, property_id |-> 103, lat |-> 65, lng |-> 0,
     priority |-> "medium", required_skills |-> {},
     duration_minutes |-> 30,
     time_window_start |-> Minutes(0), time_window_end |-> Minutes(60)],
    [id |-> 6, property_id |-> 106, lat |-> 5, lng |-> 0,
     priority |-> "urgent", required_skills |-> {"exotic"},
     duration_minutes |-> 0,
     time_window_start |-> Minutes(0), time_window_end |-> Minutes(480)] >>

TechPool == <<
    [id |-> 1, name |-> "Ann", skills |-> {"hvac"},
     home_lat |-> 5, home_lng |-> 0, max_hours |-> 8,
     shift_start |-> Minutes(0), shift_end |-> Minutes(480)],
    [id |-> 2, name |-> "Bob", skills |-> {"hvac", "plumbing"},
     home_lat |-> 5, home_lng |-> 0, max_hours |-> 1,
     shift_start |-> Minutes(0), shift_end |-> Minutes(480)],
    [id |-> 3, name |-> "Cy", skills |-> {"plumbing"},
     home_lat |-> 10, home_lng |-> 0, max_hours |-> 8,
     shift_start |-> Minutes(60), shift_end |-> Minutes(240)] >>

\* sequences of distinct pool entries, in any order, of length 1..maxLen
DistinctIndexSeqs(poolSize, maxLen) ==
    {s \in UNION {[1..n -> 1..poolSize] : n \in 1..maxLen} :
        \A i, j \in DOMAIN s : i # j => s[i] # s[j]}

\* sub-sequences of the pool (pool order kept), of length 1..maxLen
IncreasingIndexSeqs(poolSize, maxLen) ==
    {s \in DistinctIndexSeqs(poolSize, maxLen) :
        \A i, j \in DOMAIN s : i < j => s[i] < s[j]}

\* great-circle distance of two points of the line, in 1/1000 mile
LineDistance(x1, x2) == Abs(x1 - x2) * 1000

\* the matrix build_distance_matrix produces for homes followed by orders
BuildDistanceMatrix(techs, orders) ==
    LET T == Len(techs)
        N == T + Len(orders)
        pos(i) == IF i <= T THEN techs[i].home_lat ELSE orders[i - T].lat
    IN  SeqFrom([i \in 1..N |->
                    SeqFrom([j \in 1..N |-> LineDistance(pos(i), pos(j))], N)], N)

Speeds == {30, 45}

\* defects of value that the constructor does not look at
ValueDefects == {"none", "zero_speed", "neg_dist_home", "neg_dist_orders",
                 "neg_hours", "zero_hours"}

ApplySpeedDefect(spd, defect) == IF defect = "zero_speed" THEN 0 ELSE spd

ApplyHoursDefect(techs, defect) ==
    IF defect = "neg_hours"
    THEN [techs EXCEPT ![Len(techs)].max_hours = -1]
    ELSE IF defect = "zero_hours"
         THEN [techs EXCEPT ![Len(techs)].max_hours = 0]
         ELSE techs

ApplyMatrixDefect(dm, T, W, defect) ==
    IF defect = "neg_dist_home" THEN [dm EXCEPT ![1][T + 1] = -1000]
    ELSE IF defect = "neg_dist_orders" /\ W >= 2
         THEN [dm EXCEPT ![T + 1][T + 2] = -1000, ![T + 2][T + 1] = -1000]
    ELSE dm

\* structural defects, the ones _validate_inputs looks for
StructuralDefects == {"no_orders", "no_techs", "wo_key", "tech_key",
                      "rows", "ragged"}

DropKey(rec, key) == [k \in (DOMAIN rec) \ {key} |-> rec[k]]

ApplyOrderDefects(orders, ds) ==
    IF "no_orders" \in ds THEN <<>>
    ELSE IF "wo_key" \in ds
         THEN [orders EXCEPT ![Len(orders)] = DropKey(@, "priority")]
    ELSE orders

ApplyTechDefects(techs, ds) ==
    IF "no_techs" \in ds THEN <<>>
    ELSE IF "tech_key" \in ds
         THEN [techs EXCEPT ![1] = DropKey(@, "skills")]
    ELSE techs

\* a matrix of the right size for the (possibly emptied) lists, then damaged
ApplyShapeDefects(dm, ds) ==
    LET n == Len(dm)
        short == IF "rows" \in ds THEN SubSeq(dm, 1, n - 1) ELSE dm
    IN  IF "ragged" \in ds /\ Len(short) >= 1
        THEN [short EXCEPT ![Len(short)] = @ \o <<0>>]
        ELSE short

ZeroMatrix(n) == SeqFrom([i \in 1..n |-> SeqFrom([j \in 1..n |-> 0], n)], n)

-----------------------------------------------------------------------------
(* Constraint kernel and travel time *)

\* check_skill_match: required is a subset of the technician's skills
check_skill_match(technician_skills, required_skills) ==
    required_skills \subseteq technician_skills

\* variant of _check_skill_match that lets every technician take every order
CheckSkillMatchSkipped(technician, work_order) == TRUE

\* BaseSolver._check_skill_match(technician, work_order)
CheckSkillMatch(technician, work_order) ==
    Get(work_order, "required_skills", {}) \subseteq Get(technician, "skills", {})

\* Python floats (IEEE 754 binary64) that are >= 0, as the set of the
\* positions of the one bits of their binary expansion: position p weighs
\* 2^p, p may be negative, {} is 0.0

\* a + b, exactly: position p of the sum is set when an odd number of a, b
\* and the carry into p are; the carry comes from a position q < p set in
\* both and passed on by every position between
ExactSum(a, b) ==
    IF a = {} THEN b
    ELSE IF b = {} THEN a
    ELSE LET all == a \cup b
             lo == CHOOSE p \in all : \A q \in all : p <= q
             hi == CHOOSE p \in all : \A q \in all : q <= p
             carry(p) ==
                 \E q \in lo..(p - 1) :
                     /\ q \in a
                     /\ q \in b
                     /\ \A r \in (q + 1)..(p - 1) : r \in all
         IN  {p \in lo..(hi + 1) : ((p \in a) # (p \in b)) # carry(p)}

\* the integer whose binary digits are the positions lo..hi of bits
RECURSIVE BitsValue(_, _, _)
BitsValue(bits, lo, hi) ==
    IF lo = hi THEN (IF lo \in bits THEN 1 ELSE 0)
    ELSE BitsValue(bits, lo, (lo + hi) \div 2)
         + 2^((lo + hi) \div 2 + 1 - lo) * BitsValue(bits, (lo + hi) \div 2 + 1, hi)

\* long division of bits by the integer 0 < d < 2^15, fifteen positions at a
\* time from p down to low or below: st = [q, rem], the quotient bits so
\* far and the remainder
RECURSIVE DivBits(_, _, _, _, _)
DivBits(bits, d, p, low, st) ==
    IF p < low THEN st
    ELSE LET step(n) ==
                 DivBits(bits, d, p - 15, low,
                         [q |-> st.q \cup {p - 14 + j : j \in
                                              {i \in 0..14 : ((n \div d) \div 2^i) % 2 = 1}},
                          rem |-> n % d])
         IN  step(st.rem * 2^15 + BitsValue(bits, p - 14, p))

\* the double nearest to the value of bits (plus something below its last
\* bit when inexact), ties to even: 53 significant bits are kept
RoundToDouble(bits, inexact) ==
    IF bits = {} THEN {}
    ELSE LET top == CHOOSE p \in bits : \A q \in bits : q <= p
             ulp == top - 52
             kept == {p \in bits : p >= ulp}
             half == (ulp - 1) \in bits
             below == inexact \/ \E p \in bits : p < ulp - 1
         IN  IF half /\ (below \/ ulp \in bits) THEN ExactSum(kept, {ulp}) ELSE kept

\* a + b of two floats
FloatAdd(a, b) == RoundToDouble(ExactSum(a, b), FALSE)

\* a / d of a float and an integer 0 < d < 2^15 (60.0, or the 100 of a
\* literal with two decimals)
FloatDiv(a, d) ==
    IF a = {} THEN {}
    ELSE LET top == CHOOSE p \in a : \A q \in a : q <= p
             rounded(st) == RoundToDouble(st.q, st.rem # 0)
         IN  rounded(DivBits(a, d, top, top - 70, [q |-> {}, rem |-> 0]))

\* a <= b of two floats
FloatLeq(a, b) ==
    \/ a = b
    \/ LET differ == (a \ b) \cup (b \ a)
       IN  (CHOOSE p \in differ : \A q \in differ : q <= p) \in b

\* the float of n / d for integers 0 <= n < 2^31, 0 < d: the value of a time
\* kept here in 1/100 minute (d = 100), of an hour limit (d = 6000); a whole
\* quotient is a double as it stands
DoubleOf(n, d) ==
    IF n % d = 0
    THEN {p \in 0..30 : ((n \div d) \div 2^p) % 2 = 1}
    ELSE FloatDiv({p \in 0..30 : (n \div 2^p) % 2 = 1}, d)

\* (terms[1] + ... + terms[k]) / 60.0, added from the left
RECURSIVE SumF(_, _)
SumF(terms, k) ==
    IF k = 0 THEN {} ELSE FloatAdd(SumF(terms, k - 1), terms[k])

HoursF(terms) == FloatDiv(SumF(terms, Len(terms)), 60)

\* the floats route_duration and route_work_time of a route under
\* construction: 0.0 and 'route_duration += travel_min' for every stop; the
\* service minutes are whole numbers, whose sums are exact
RouteMinutesF(c) ==
    LET travel(stops) ==
            IF Len(stops) = 0 THEN <<>>
            ELSE SeqFrom([k \in DOMAIN stops |->
                             DoubleOf(stops[k].travel_duration, 100)], Len(stops))
    IN  <<SumF(travel(c.stops), Len(c.stops)), DoubleOf(c.route_work_time, 100)>>

\* check_daily_limit raises ValueError when an argument is negative
DailyLimitRaises(current_hours, max_hours, additional_hours) ==
    current_hours < 0 \/ max_hours < 0 \/ additional_hours < 0

\* variant of check_daily_limit that forgets the hours already used
check_daily_limit_additional_only(current_hours, max_hours, additional_hours) ==
    additional_hours <= max_hours

check_daily_limit(current_hours, max_hours, additional_hours) ==
    (current_hours + additional_hours) <= max_hours

\* estimate_travel_time raises ValueError on these arguments
EstimateRaises(distance_miles, speed_mph) ==
    distance_miles < 0 \/ speed_mph <= 0

\* round((distance_miles / speed_mph) * 60.0, 2), in 1/100 minute
estimate_travel_time(distance_miles, speed_mph) ==
    RoundDiv(distance_miles * 6, speed_mph)

\* str.lower() on the priority labels of the inputs
Lower(s) ==
    CASE s = "HIGH" -> "high"
      [] s = "Emergency" -> "emergency"
      [] OTHER -> s

\* BaseSolver._get_priority_value
GetPriorityValue(priority) ==
    LET p == Lower(priority)
    IN  CASE p = "emergency" -> 0
          [] p = "high" -> 1
          [] p = "medium" -> 2
          [] p = "low" -> 3
          [] OTHER -> 99

NumTechnicians == Len(technicians)
NumOrders == Len(work_orders)
AvgSpeed == Get(config, "avg_speed_mph", 30)

-----------------------------------------------------------------------------
(* BaseSolver._validate_inputs, run by the constructor *)

MissingKeys(rec, required) == required \ DOMAIN rec

\* variant of the enumerate loop that keeps the last record missing a key
FirstMissingFromEnd(records, required, idx) ==
    LET bad == {i \in idx..Len(records) : MissingKeys(records[i], required) # {}}
    IN  IF bad = {} THEN 0 ELSE CHOOSE i \in bad : \A j \in bad : j <= i

\* 'for idx, rec in enumerate(records)': the position of the first record,
\* from idx on, that misses a required key; 0 when none does
RECURSIVE FirstMissing(_, _, _)
FirstMissing(records, required, idx) ==
    IF idx > Len(records) THEN 0
    ELSE IF MissingKeys(records[idx], required) # {} THEN idx
    ELSE FirstMissing(records, required, idx + 1)

\* the ValueError of _validate_inputs with the values its message is
\* formatted from (index and row_idx count from 0 as enumerate does);
\* kind "" when every check passes
ValidationMessage(wos, techs, dm) ==
    LET expected_size == Len(techs) + Len(wos)
        message(kind, index, id, missing, found) ==
            [kind |-> kind, index |-> index, id |-> id, missing |-> missing,
             found |-> found, expected |-> expected_size]
        plain(kind) == message(kind, -1, "", {}, -1)
        missing_keys(kind, records, required, idx) ==
            message(kind, idx - 1, Get(records[idx], "id", "UNKNOWN"),
                    MissingKeys(records[idx], required), -1)
        bad_rows == {r \in DOMAIN dm : Len(dm[r]) # expected_size}
        row_idx == CHOOSE r \in bad_rows : \A q \in bad_rows : r <= q
        wo_idx == FirstMissing(wos, REQUIRED_WORK_ORDER_KEYS, 1)
        tech_idx == FirstMissing(techs, REQUIRED_TECHNICIAN_KEYS, 1)
    IN  IF wos = <<>> THEN plain("empty_work_orders")
        ELSE IF techs = <<>> THEN plain("empty_technicians")
        ELSE IF wo_idx # 0
             THEN missing_keys("work_order_missing_keys", wos,
                               REQUIRED_WORK_ORDER_KEYS, wo_idx)
        ELSE IF tech_idx # 0
             THEN missing_keys("technician_missing_keys", techs,
                               REQUIRED_TECHNICIAN_KEYS, tech_idx)
        ELSE IF Len(dm) # expected_size
             THEN message("matrix_rows", -1, "", {}, Len(dm))
        ELSE IF bad_rows # {}
             THEN message("matrix_columns", row_idx - 1, "", {}, Len(dm[row_idx]))
        ELSE plain("")

\* variant of _validate_inputs that measures only the first row of the matrix
ValidationErrorFirstRow(wos, techs, dm) ==
    LET expected_size == Len(techs) + Len(wos)
    IN  IF wos = <<>> THEN "empty_work_orders"
        ELSE IF techs = <<>> THEN "empty_technicians"
        ELSE IF \E i \in DOMAIN wos :
                    MissingKeys(wos[i], REQUIRED_WORK_ORDER_KEYS) # {}
             THEN "work_order_missing_keys"
        ELSE IF \E i \in DOMAIN techs :
                    MissingKeys(techs[i], REQUIRED_TECHNICIAN_KEYS) # {}
             THEN "technician_missing_keys"
        ELSE IF Len(dm) # expected_size THEN "matrix_rows"
        ELSE IF Len(dm[1]) # expected_size THEN "matrix_columns"
        ELSE ""

\* the first check of _validate_inputs that fails, "" when none does
ValidationError(wos, techs, dm) ==
    LET expected_size == Len(techs) + Len(wos)
    IN  IF wos = <<>> THEN "empty_work_orders"
        ELSE IF techs = <<>> THEN "empty_technicians"
        ELSE IF \E i \in DOMAIN wos :
                    MissingKeys(wos[i], REQUIRED_WORK_ORDER_KEYS) # {}
             THEN "work_order_missing_keys"
        ELSE IF \E i \in DOMAIN techs :
                    MissingKeys(techs[i], REQUIRED_TECHNICIAN_KEYS) # {}
             THEN "technician_missing_keys"
        ELSE IF Len(dm) # expected_size THEN "matrix_rows"
        ELSE IF \E r \in DOMAIN dm : Len(dm[r]) # expected_size
             THEN "matrix_columns"
        ELSE ""

-----------------------------------------------------------------------------
(* GreedySolver *)

PriorityOf(wo_idx) == GetPriorityValue(Get(work_orders[wo_idx], "priority", "low"))

\* sorted(range(num_orders), key=priority value)
SortedWoIndices ==
    LET indices(srt) ==
            IF Len(srt) = 0 THEN <<>>
            ELSE SeqFrom([i \in 1..NumOrders |-> srt[i].idx], NumOrders)
        sort(keyed) ==
            IF Len(keyed) = 0 THEN <<>> ELSE indices(StableSortByKey(keyed))
    IN  sort(SeqFrom([i \in 1..NumOrders |->
                         [key |-> PriorityOf(i), idx |-> i]], NumOrders))

\* variant that numbers the stops from 1
StartRouteSeqOne(v) ==
    [stops |-> <<>>, route_distance |-> 0, route_duration |-> 0,
     route_work_time |-> 0, current_node |-> v,
     current_time |-> technicians[v].shift_start, used_hours |-> 0, seq |-> 1]

\* locals of _build_technician_route / the decode loop at the start of a route
StartRoute(v) ==
    [stops |-> <<>>, route_distance |-> 0, route_duration |-> 0,
     route_work_time |-> 0, current_node |-> v,
     current_time |-> technicians[v].shift_start, used_hours |-> 0, seq |-> 0]

NoRoute ==
    [stops |-> <<>>, route_distance |-> 0, route_duration |-> 0,
     route_work_time |-> 0, current_node |-> 0,
     current_time |-> 0, used_hours |-> 0, seq |-> 0]

\* the checks of one candidate in the scan loop (greedy_solver.py 162-198):
\* raised = an exception escapes, feasible = no 'continue' was taken.  The
\* hours are kept exactly, in 1/100 minute; the floats of the code are
\* within 1e-11 hour of them, so they decide check_daily_limit otherwise
\* only when the exact hours equal the limit, and there the floats are
\* computed: used_hours = (route_duration + route_work_time) / 60.0 plus
\* (travel_min [+ wait_min] + service_min) / 60.0, wait_min being
\* total_seconds() / 60.0
CandidateCheck(v, c, wo_idx) ==
    LET tech == technicians[v]
        wo == work_orders[wo_idx]
        wo_node == wo_idx + NumTechnicians
        max_hours == Hours(Get(tech, "max_hours", 8))
        dist == distance_matrix[c.current_node][wo_node]
        travel_min == estimate_travel_time(dist, AvgSpeed)
        service_min == Minutes(Get(wo, "duration_minutes", 0))
        additional_hours == travel_min + service_min
        arrival0 == c.current_time + travel_min
        early == arrival0 < wo.time_window_start
        wait_min == wo.time_window_start - arrival0
        total_added == travel_min + wait_min + service_min
        proposed_arrival == IF early THEN wo.time_window_start ELSE arrival0
        proposed_departure == proposed_arrival + service_min
        no == [raised |-> FALSE, feasible |-> FALSE, dist |-> 0]
        within_limit(added, terms) ==
            IF c.used_hours + added = max_hours
            THEN FloatLeq(FloatAdd(HoursF(RouteMinutesF(c)), HoursF(terms)),
                          DoubleOf(max_hours, 6000))
            ELSE check_daily_limit(c.used_hours, max_hours, added)
    IN  IF ~CheckSkillMatch(tech, wo) THEN no
        ELSE IF EstimateRaises(dist, AvgSpeed)
             THEN [raised |-> TRUE, feasible |-> FALSE, dist |-> 0]
        ELSE IF DailyLimitRaises(c.used_hours, max_hours, additional_hours)
             THEN [raised |-> TRUE, feasible |-> FALSE, dist |-> 0]
        ELSE IF ~within_limit(additional_hours,
                              <<DoubleOf(travel_min, 100), DoubleOf(service_min, 100)>>)
             THEN no
        ELSE IF early /\ ~within_limit(total_added,
                                       <<DoubleOf(travel_min, 100),
                                         FloatDiv(DoubleOf(3 * wait_min, 5), 60),
                                         DoubleOf(service_min, 100)>>)
             THEN no
        ELSE IF proposed_arrival > wo.time_window_end THEN no
        ELSE IF proposed_departure > tech.shift_end THEN no
        ELSE [raised |-> FALSE, feasible |-> TRUE, dist |-> dist]

\* variant of the selection in which an equal distance replaces the best so far
SelectBestLatestTie(acc, wo_idx, dist) ==
    IF acc.best_wo_idx # 0
    THEN IF PriorityOf(wo_idx) < PriorityOf(acc.best_wo_idx)
         THEN [acc EXCEPT !.best_wo_idx = wo_idx, !.best_dist = dist]
         ELSE IF PriorityOf(wo_idx) = PriorityOf(acc.best_wo_idx)
                 /\ dist <= acc.best_dist
              THEN [acc EXCEPT !.best_wo_idx = wo_idx, !.best_dist = dist]
              ELSE acc
    ELSE [acc EXCEPT !.best_wo_idx = wo_idx, !.best_dist = dist]

\* nearest-neighbour selection (greedy_solver.py 203-217); best_wo_idx = 0 is None
SelectBest(acc, wo_idx, dist) ==
    IF acc.best_wo_idx # 0
    THEN IF PriorityOf(wo_idx) < PriorityOf(acc.best_wo_idx)
         THEN [acc EXCEPT !.best_wo_idx = wo_idx, !.best_dist = dist]
         ELSE IF PriorityOf(wo_idx) = PriorityOf(acc.best_wo_idx)
                 /\ dist < acc.best_dist
              THEN [acc EXCEPT !.best_wo_idx = wo_idx, !.best_dist = dist]
              ELSE acc
    ELSE [acc EXCEPT !.best_wo_idx = wo_idx, !.best_dist = dist]

\* variant of the scan that does not skip the orders already assigned
ScanStepIgnoringAssigned(v, c, asg, wo_idx, acc) ==
    IF acc.raised THEN acc
    ELSE LET e == CandidateCheck(v, c, wo_idx)
         IN  IF e.raised THEN [acc EXCEPT !.raised = TRUE]
             ELSE IF ~e.feasible THEN acc
             ELSE SelectBest(acc, wo_idx, e.dist)

\* one iteration of 'for wo_idx in sorted_wo_indices'
ScanStep(v, c, asg, wo_idx, acc) ==
    IF acc.raised THEN acc
    ELSE IF wo_idx \in asg THEN acc
    ELSE LET e == CandidateCheck(v, c, wo_idx)
         IN  IF e.raised THEN [acc EXCEPT !.raised = TRUE]
             ELSE IF ~e.feasible THEN acc
             ELSE SelectBest(acc, wo_idx, e.dist)

\* the iterations lo..hi of 'for wo_idx in sorted_wo_indices', in order
RECURSIVE ScanFrom(_, _, _, _, _, _, _)
ScanFrom(v, c, asg, sorted_wo_indices, lo, hi, acc) ==
    IF lo > hi THEN acc
    ELSE IF lo = hi THEN ScanStep(v, c, asg, sorted_wo_indices[lo], acc)
    ELSE LET mid == (lo + hi) \div 2
             rest(left) ==
                 IF left.raised THEN left
                 ELSE ScanFrom(v, c, asg, sorted_wo_indices, mid + 1, hi, left)
         IN  rest(ScanFrom(v, c, asg, sorted_wo_indices, lo, mid, acc))

\* one pass of the while loop up to 'if best_wo_idx is not None'
GreedyScan(v, c, asg) ==
    LET none == [best_wo_idx |-> 0, best_dist |-> 0, raised |-> FALSE]
        scan(sorted_wo_indices) ==
            IF Len(sorted_wo_indices) = 0 THEN none
            ELSE ScanFrom(v, c, asg, sorted_wo_indices, 1, NumOrders, none)
    IN  scan(SortedWoIndices)

\* variant that cuts the stop's distance to 2 decimals instead of rounding it
MakeStopTruncating(wo, seq, arrival, departure, dist, travel_min) ==
    [work_order_id |-> wo.id, property_id |-> wo.property_id,
     lat |-> wo.lat, lng |-> wo.lng, sequence |-> seq,
     arrival_time |-> arrival, departure_time |-> departure,
     travel_distance |-> dist \div 10, travel_duration |-> travel_min]

\* RouteStop(...) built for a committed order
MakeStop(wo, seq, arrival, departure, dist, travel_min) ==
    [work_order_id |-> wo.id, property_id |-> wo.property_id,
     lat |-> wo.lat, lng |-> wo.lng, sequence |-> seq,
     arrival_time |-> arrival, departure_time |-> departure,
     travel_distance |-> RoundDiv(dist, 10), travel_duration |-> travel_min]

\* 'Assign the best candidate' (greedy_solver.py 220-258)
CommitStop(c, wo_idx) ==
    LET wo == work_orders[wo_idx]
        wo_node == wo_idx + NumTechnicians
        dist == distance_matrix[c.current_node][wo_node]
        travel_min == estimate_travel_time(dist, AvgSpeed)
        service_min == Minutes(Get(wo, "duration_minutes", 0))
        arrival0 == c.current_time + travel_min
        proposed_arrival ==
            IF arrival0 < wo.time_window_start THEN wo.time_window_start ELSE arrival0
        departure == proposed_arrival + service_min
    IN  [stops |-> Append(c.stops,
                     MakeStop(wo, c.seq, proposed_arrival, departure, dist, travel_min)),
         route_distance |-> c.route_distance + dist,
         route_duration |-> c.route_duration + travel_min,
         route_work_time |-> c.route_work_time + service_min,
         current_node |-> wo_node,
         current_time |-> departure,
         used_hours |-> c.route_duration + travel_min + c.route_work_time + service_min,
         seq |-> c.seq + 1]

\* variant that relates the hours to the default day of 8 hours
UtilizationOfDefaultDay(total_hours, max_hours) ==
    Min(1000, RoundDiv(total_hours, 6 * 8))

\* utilization_percent, in 1/10 percent
Utilization(total_hours, max_hours) ==
    IF max_hours > 0
    THEN Min(1000, RoundDiv(total_hours, 6 * max_hours))
    ELSE 0

\* TechnicianRoute(...) built when a route is complete
MakeRoute(v, c) ==
    LET tech == technicians[v]
    IN  [technician_id |-> tech.id, technician_name |-> tech.name,
         stops |-> c.stops,
         total_distance |-> RoundDiv(c.route_distance, 10),
         total_duration |-> c.route_duration,
         total_work_time |-> c.route_work_time,
         utilization_percent |->
             Utilization(c.route_duration + c.route_work_time,
                         Get(tech, "max_hours", 8))]

\* variant of the unassigned list that looks the ids up among the indices
GreedyUnassignedById(asg) ==
    LET all_order_ids == SeqFrom([i \in 1..NumOrders |-> work_orders[i].id],
                                 NumOrders)
    IN  SelectSeq(all_order_ids, LAMBDA x : x \notin asg)

\* unassigned = [all_order_ids[i] for i in range(num_orders) if i not in assigned]
GreedyUnassigned(asg) ==
    LET all_order_ids == SeqFrom([i \in 1..NumOrders |-> work_orders[i].id],
                                 NumOrders)
        kept(idxs) == SeqFrom([k \in DOMAIN idxs |-> all_order_ids[idxs[k]]],
                              Len(idxs))
    IN  kept(SelectSeq(SeqFrom([i \in 1..NumOrders |-> i], NumOrders),
                       LAMBDA i : i \notin asg))

NumVehiclesUsed(rs) == Cardinality({i \in DOMAIN rs : Len(rs[i].stops) > 0})

GreedyResult(rs, td, tdur, asg) ==
    [routes |-> rs, total_distance |-> td, total_duration |-> tdur,
     unassigned_orders |-> GreedyUnassigned(asg),
     algorithm |-> "GreedySolver",
     metadata |-> [num_vehicles_used |-> NumVehiclesUsed(rs)]]

-----------------------------------------------------------------------------
(* The process-wide generator of the random module.  The Mersenne Twister *)
(* is modelled by a linear congruential generator with 2^16 states: what  *)
(* matters is that every draw is a function of the state and advances it. *)

\* random.seed(seed)
SeedState(seed) == seed % 65536

RngNext(r) == (r * 25173 + 13849) % 65536

\* one draw below n (random.choice, randint, shuffle and sample use it)
RandBelow(r, n) ==
    LET r1 == RngNext(r) IN [rng |-> r1, val |-> (r1 * n) \div 65536]

\* random.random() < percent / 100
RandomLess(r, percent) ==
    LET r1 == RngNext(r) IN [rng |-> r1, val |-> r1 * 100 < percent * 65536]

Swap(s, i, j) == [s EXCEPT ![i] = s[j], ![j] = s[i]]

\* random.shuffle(x): for i in reversed(range(1, len(x))): j = randbelow(i + 1)
RECURSIVE ShuffleFrom(_, _, _)
ShuffleFrom(r, x, i) ==
    IF i < 2 THEN [rng |-> r, val |-> x]
    ELSE LET d == RandBelow(r, i)
         IN  ShuffleFrom(d.rng, Swap(x, i, d.val + 1), i - 1)

Shuffle(r, x) == ShuffleFrom(r, x, Len(x))

\* random.sample(population, k), pool branch: j = randbelow(n - i);
\* result[i] = pool[j]; pool[j] = pool[n - i - 1]
RECURSIVE SampleFrom(_, _, _, _, _)
SampleFrom(r, pool, k, i, acc) ==
    IF i >= k THEN [rng |-> r, val |-> acc]
    ELSE LET n == Len(pool)
             d == RandBelow(r, n - i)
             j == d.val + 1
         IN  SampleFrom(d.rng, [pool EXCEPT ![j] = pool[n - i]], k, i + 1,
                        Append(acc, pool[j]))

Sample(r, pool, k) == SampleFrom(r, pool, k, 0, <<>>)

-----------------------------------------------------------------------------
(* GeneticSolver: chromosomes, initial population, fitness *)

\* _SKILL_VIOLATION_PENALTY etc., per violation / per hour
SKILL_VIOLATION_PENALTY == 500
TIME_WINDOW_VIOLATION_PENALTY == 200
CAPACITY_VIOLATION_PENALTY == 300

\* _build_feasibility_mask()[v][wo]
FeasibilityMask(v, wo_idx) ==
    check_skill_match(Get(technicians[v], "skills", {}),
                      Get(work_orders[wo_idx], "required_skills", {}))

\* [v for v in range(num_technicians) if feasible[v][wo_idx]]
FeasibleTechs(wo_idx) ==
    SelectSeq(SeqFrom([v \in 1..NumTechnicians |-> v], NumTechnicians),
              LAMBDA v : FeasibilityMask(v, wo_idx))

\* random.choice(feasible_techs), or random.randint(0, T - 1) when there is none
DrawTechnician(r, wo_idx) ==
    LET ft == FeasibleTechs(wo_idx)
    IN  IF ft # <<>>
        THEN LET d == RandBelow(r, Len(ft)) IN [rng |-> d.rng, val |-> ft[d.val + 1]]
        ELSE LET d == RandBelow(r, NumTechnicians) IN [rng |-> d.rng, val |-> d.val + 1]

RECURSIVE InitAssignments(_, _, _)
InitAssignments(r, wo_idx, acc) ==
    IF wo_idx > NumOrders THEN [rng |-> r, val |-> acc]
    ELSE LET d == DrawTechnician(r, wo_idx)
         IN  InitAssignments(d.rng, wo_idx + 1, Append(acc, d.val))

\* float("inf"), the fitness of a chromosome not yet evaluated
Infinity == 1000000000

\* one iteration of 'for _ in range(pop_size)' in _initialize_population
InitChromosome(r) ==
    LET chromosome(a, sh) ==
            [rng |-> sh.rng,
             val |-> [assignments |-> a.val, order_sequence |-> sh.val,
                      fitness |-> Infinity]]
        shuffled(a) ==
            chromosome(a, Shuffle(a.rng, SeqFrom([i \in 1..NumOrders |-> i],
                                                 NumOrders)))
    IN  shuffled(InitAssignments(r, 1, <<>>))

RECURSIVE InitializePopulation(_, _, _)
InitializePopulation(r, pop_size, acc) ==
    IF Len(acc) >= pop_size THEN [rng |-> r, val |-> acc]
    ELSE LET append(c) == InitializePopulation(c.rng, pop_size, Append(acc, c.val))
         IN  append(InitChromosome(r))

\* tech_orders[v]: the orders assigned to v, in order_sequence order
TechOrders(chromo, v) ==
    SelectSeq(chromo.order_sequence, LAMBDA wo_idx : chromo.assignments[wo_idx] = v)

\* one iteration of 'for wo_idx in wo_indices' in _evaluate_fitness;
\* st = [node, time, used, legs, dist, penalty, raised], fitness unit 1/3000;
\* legs keeps the <<travel_min, service_min>> that were added to used_hours
FitnessStep(v, st, wo_idx) ==
    LET tech == technicians[v]
        wo == work_orders[wo_idx]
        wo_node == wo_idx + NumTechnicians
        skill_pen == IF ~CheckSkillMatch(tech, wo)
                     THEN SKILL_VIOLATION_PENALTY * 3000 ELSE 0
        dist == distance_matrix[st.node][wo_node]
        service_min == Minutes(Get(wo, "duration_minutes", 0))
        \* PENALTY * (over_min / 60): over in 1/100 min, times 3000 / 6000
        tw_pen(arrival) ==
            IF arrival > wo.time_window_end
            THEN (TIME_WINDOW_VIOLATION_PENALTY * (arrival - wo.time_window_end)) \div 2
            ELSE 0
        shift_pen(departure) ==
            IF departure > tech.shift_end
            THEN (CAPACITY_VIOLATION_PENALTY * (departure - tech.shift_end)) \div 2
            ELSE 0
        serve(travel_min, arrival, departure) ==
            [node |-> wo_node, time |-> departure,
             used |-> st.used + travel_min + service_min,
             legs |-> Append(st.legs, <<travel_min, service_min>>),
             dist |-> st.dist + dist,
             penalty |-> st.penalty + skill_pen + tw_pen(arrival)
                            + shift_pen(departure),
             raised |-> FALSE]
        \* if arrival < wo["time_window_start"]: arrival = wo["time_window_start"]
        wait(travel_min, arrival) == serve(travel_min, arrival, arrival + service_min)
        arrive(travel_min, arrival0) ==
            wait(travel_min, IF arrival0 < wo.time_window_start
                             THEN wo.time_window_start ELSE arrival0)
        travel(travel_min) == arrive(travel_min, st.time + travel_min)
    IN  IF st.raised THEN st
        ELSE IF EstimateRaises(dist, AvgSpeed) THEN [st EXCEPT !.raised = TRUE]
        ELSE travel(estimate_travel_time(dist, AvgSpeed))

RECURSIVE FitnessRoute(_, _, _)
FitnessRoute(v, st, wo_indices) ==
    IF wo_indices = <<>> THEN st
    ELSE FitnessRoute(v, FitnessStep(v, st, Head(wo_indices)), Tail(wo_indices))

\* the body of 'for v_idx, wo_indices in tech_orders.items()'
FitnessOfTechnician(chromo, v) ==
    LET tech == technicians[v]
        max_hours == Hours(Get(tech, "max_hours", 8))
        \* used_hours = 0.0 and 'used_hours += (travel_min + service_min) / 60.0'
        used_hours(legs) ==
            IF Len(legs) = 0 THEN <<>>
            ELSE SeqFrom([k \in DOMAIN legs |->
                             HoursF(<<DoubleOf(legs[k][1], 100),
                                      DoubleOf(legs[k][2], 100)>>)], Len(legs))
        \* when the exact hours equal the limit the floats decide
        \* 'used_hours > max_hours'; the penalty is then 300 times a rounding
        \* error, kept as the least amount of the fitness unit
        hours_pen(st) ==
            IF st.used = max_hours /\ Len(st.legs) > 0
            THEN IF FloatLeq(SumF(used_hours(st.legs), Len(st.legs)),
                             DoubleOf(max_hours, 6000))
                 THEN 0 ELSE 1
            ELSE IF st.used > max_hours
            THEN (CAPACITY_VIOLATION_PENALTY * (st.used - max_hours)) \div 2
            ELSE 0
        total(st) ==
            [raised |-> st.raised, dist |-> st.dist,
             penalty |-> st.penalty + hours_pen(st)]
    IN  total(FitnessRoute(v, [node |-> v, time |-> tech.shift_start, used |-> 0,
                               legs |-> <<>>,
                               dist |-> 0, penalty |-> 0, raised |-> FALSE],
                           TechOrders(chromo, v)))

RECURSIVE FitnessSum(_, _)
FitnessSum(chromo, v) ==
    IF v = 0 THEN [raised |-> FALSE, val |-> 0]
    ELSE LET add(rest, f) ==
                 [raised |-> rest.raised \/ f.raised,
                  val |-> rest.val + 3 * f.dist + f.penalty]
         IN  add(FitnessSum(chromo, v - 1), FitnessOfTechnician(chromo, v))

\* _evaluate_fitness: total_distance + penalty, or an exception
EvaluateFitness(chromo) == FitnessSum(chromo, NumTechnicians)

-----------------------------------------------------------------------------
(* GeneticSolver: selection, crossover, mutation, one generation *)

PopulationSize == Get(config, "population_size", 100)
\* variant of the loop bound that runs one generation more
GenerationsOffByOne == Get(config, "generations", 500) + 1

Generations == Get(config, "generations", 500)
MutationRate == Get(config, "mutation_rate", 10)    \* percent
EliteSize == Get(config, "elite_size", 10)
TournamentSize == Get(config, "tournament_size", 5)

\* population.sort(key=lambda c: c.fitness)
SortByFitness(pop) ==
    LET unkeyed(srt) == SeqFrom([i \in DOMAIN pop |-> srt[i].c], Len(pop))
    IN  unkeyed(StableSortByKey(
            SeqFrom([i \in DOMAIN pop |-> [key |-> pop[i].fitness, c |-> pop[i]]],
                    Len(pop))))

\* min(competitors, key=lambda c: c.fitness): the first of minimum fitness
MinByFitness(cs) ==
    LET i == CHOOSE i \in DOMAIN cs :
                 /\ \A j \in DOMAIN cs : cs[i].fitness <= cs[j].fitness
                 /\ \A j \in 1..(i - 1) : cs[j].fitness > cs[i].fitness
    IN  cs[i]

\* _tournament_select
TournamentSelect(r, pop, tournament_size) ==
    LET winner(competitors) ==
            [rng |-> competitors.rng, val |-> MinByFitness(competitors.val)]
    IN  winner(Sample(r, pop, Min(tournament_size, Len(pop))))

\* uniform crossover of the assignments (genetic_solver.py 327-335)
RECURSIVE CrossAssignments(_, _, _, _, _, _)
CrossAssignments(r, a1, a2, i, c1, c2) ==
    IF i > Len(a1) THEN [rng |-> r, c1 |-> c1, c2 |-> c2]
    ELSE LET d == RandomLess(r, 50)
         IN  IF d.val
             THEN CrossAssignments(d.rng, a1, a2, i + 1,
                                   Append(c1, a1[i]), Append(c2, a2[i]))
             ELSE CrossAssignments(d.rng, a1, a2, i + 1,
                                   Append(c1, a2[i]), Append(c2, a1[i]))

\* variant of _ox_sequence that fills with all of seq2, inherited values included
OxChildUnfiltered(seq1, seq2, start, end) ==
    LET fill_values == seq2
        slot(i) == IF i < start THEN i ELSE i - (end - start + 1)
    IN  SeqFrom([i \in 1..Len(seq1) |->
                    IF i \in start..end THEN seq1[i]
                    ELSE IF slot(i) <= Len(fill_values) THEN fill_values[slot(i)]
                    ELSE 0],
                Len(seq1))

\* the child of _ox_sequence for the cut start..end (1-based, inclusive);
\* 0 stands for a position left at None
OxChild(seq1, seq2, start, end) ==
    LET inherited == {seq1[i] : i \in start..end}
        fill_values == SelectSeq(seq2, LAMBDA g : g \notin inherited)
        slot(i) == IF i < start THEN i ELSE i - (end - start + 1)
    IN  SeqFrom([i \in 1..Len(seq1) |->
                    IF i \in start..end THEN seq1[i]
                    ELSE IF slot(i) <= Len(fill_values) THEN fill_values[slot(i)]
                    ELSE 0],
                Len(seq1))

\* _ox_sequence: start = randint(0, n - 2), end = randint(start + 1, n - 1)
OxSequence(r, seq1, seq2) ==
    LET n == Len(seq1)
    IN  IF n <= 2 THEN [rng |-> r, val |-> seq1]
        ELSE LET cut(ds, de) ==
                     [rng |-> de.rng,
                      val |-> OxChild(seq1, seq2, ds.val + 1, ds.val + 1 + de.val + 1)]
                 draw_end(ds) == cut(ds, RandBelow(ds.rng, n - 1 - ds.val))
             IN  draw_end(RandBelow(r, n - 1))

\* _order_crossover
OrderCrossover(r, parent1, parent2) ==
    LET children(ca, s1, s2) ==
            [rng |-> s2.rng,
             child1 |-> [assignments |-> ca.c1, order_sequence |-> s1.val,
                         fitness |-> Infinity],
             child2 |-> [assignments |-> ca.c2, order_sequence |-> s2.val,
                         fitness |-> Infinity]]
        second(ca, s1) ==
            children(ca, s1, OxSequence(s1.rng, parent2.order_sequence,
                                        parent1.order_sequence))
        first(ca) ==
            second(ca, OxSequence(ca.rng, parent1.order_sequence,
                                  parent2.order_sequence))
    IN  first(CrossAssignments(r, parent1.assignments, parent2.assignments,
                               1, <<>>, <<>>))

\* 'Mutate assignments' (genetic_solver.py 407-413)
RECURSIVE MutateAssignments(_, _, _, _)
MutateAssignments(r, a, i, rate) ==
    IF i > Len(a) THEN [rng |-> r, val |-> a]
    ELSE LET reassign(t) ==
                 MutateAssignments(t.rng, [a EXCEPT ![i] = t.val], i + 1, rate)
             decide(d) ==
                 IF d.val THEN reassign(DrawTechnician(d.rng, i))
                 ELSE MutateAssignments(d.rng, a, i + 1, rate)
         IN  decide(RandomLess(r, rate))

\* 'Mutate sequence' (genetic_solver.py 416-421)
MutateSequence(r, seq, rate) ==
    LET n == Len(seq)
    IN  IF n < 2 THEN [rng |-> r, val |-> seq]
        ELSE LET swap(smp) ==
                     [rng |-> smp.rng, val |-> Swap(seq, smp.val[1], smp.val[2])]
                 decide(d) ==
                     IF ~d.val THEN [rng |-> d.rng, val |-> seq]
                     ELSE swap(Sample(d.rng, SeqFrom([k \in 1..n |-> k], n), 2))
             IN  decide(RandomLess(r, rate))

\* _mutate
Mutate(r, chromo, rate) ==
    LET mutated(a, q) ==
            [rng |-> q.rng,
             val |-> [chromo EXCEPT !.assignments = a.val, !.order_sequence = q.val]]
        sequence(a) == mutated(a, MutateSequence(a.rng, chromo.order_sequence, rate))
    IN  sequence(MutateAssignments(r, chromo.assignments, 1, rate))

\* variant of the loop body that appends child2 without looking at the size
BreedPairBothChildren(r, pop, new_population) ==
    LET append(m2, f1, f2, with1) ==
            [rng |-> m2.rng,
             raised |-> f1.raised \/ f2.raised,
             val |-> Append(with1, [m2.val EXCEPT !.fitness = f2.val])]
        evaluated(m1, m2, f1, f2) ==
            append(m2, f1, f2,
                   Append(new_population, [m1.val EXCEPT !.fitness = f1.val]))
        evaluate(m1, m2) ==
            evaluated(m1, m2, EvaluateFitness(m1.val), EvaluateFitness(m2.val))
        mutate2(x, m1) == evaluate(m1, Mutate(m1.rng, x.child2, MutationRate))
        mutate1(x) == mutate2(x, Mutate(x.rng, x.child1, MutationRate))
        cross(p1, p2) == mutate1(OrderCrossover(p2.rng, p1.val, p2.val))
        select2(p1) == cross(p1, TournamentSelect(p1.rng, pop, TournamentSize))
    IN  select2(TournamentSelect(r, pop, TournamentSize))

\* one iteration of 'while len(new_population) < pop_size'
BreedPair(r, pop, new_population) ==
    LET append(m2, f1, f2, with1) ==
            [rng |-> m2.rng,
             raised |-> f1.raised \/ f2.raised,
             val |-> IF Len(with1) < PopulationSize
                     THEN Append(with1, [m2.val EXCEPT !.fitness = f2.val])
                     ELSE with1]
        evaluated(m1, m2, f1, f2) ==
            append(m2, f1, f2,
                   Append(new_population, [m1.val EXCEPT !.fitness = f1.val]))
        evaluate(m1, m2) ==
            evaluated(m1, m2, EvaluateFitness(m1.val), EvaluateFitness(m2.val))
        mutate2(x, m1) == evaluate(m1, Mutate(m1.rng, x.child2, MutationRate))
        mutate1(x) == mutate2(x, Mutate(x.rng, x.child1, MutationRate))
        cross(p1, p2) == mutate1(OrderCrossover(p2.rng, p1.val, p2.val))
        select2(p1) == cross(p1, TournamentSelect(p1.rng, pop, TournamentSize))
    IN  select2(TournamentSelect(r, pop, TournamentSize))

RECURSIVE Breed(_, _, _)
Breed(r, pop, new_population) ==
    IF Len(new_population) >= PopulationSize
    THEN [rng |-> r, raised |-> FALSE, val |-> new_population]
    ELSE LET continue(b) == IF b.raised THEN b ELSE Breed(b.rng, pop, b.val)
         IN  continue(BreedPair(r, pop, new_population))

\* variant: no individual is carried forward
NextGenerationWithoutElites(r, pop) ==
    LET sort(b) == [rng |-> b.rng, raised |-> b.raised, val |-> SortByFitness(b.val)]
    IN  sort(Breed(r, pop, <<>>))

\* the body of 'for gen in range(generations)' up to the sort
NextGeneration(r, pop) ==
    LET elites == SubSeq(pop, 1, Min(EliteSize, Len(pop)))
        sort(b) == [rng |-> b.rng, raised |-> b.raised, val |-> SortByFitness(b.val)]
    IN  sort(Breed(r, pop, elites))

\* 'Evaluate initial fitness' and the first sort
RECURSIVE EvaluateAll(_, _)
EvaluateAll(pop, i) ==
    IF i = 0 THEN [raised |-> FALSE, val |-> pop]
    ELSE LET set(rest, f) ==
                 [raised |-> rest.raised \/ f.raised,
                  val |-> [rest.val EXCEPT ![i].fitness = f.val]]
         IN  set(EvaluateAll(pop, i - 1), EvaluateFitness(pop[i]))

-----------------------------------------------------------------------------
(* GeneticSolver._decode_solution *)

\* one iteration of 'for wo_idx in wo_indices' (genetic_solver.py 471-522);
\* st = [c, raised], c the locals of the route as in StartRoute.  When the
\* exact hours equal the limit the comparison is that of the floats,
\* (route_duration + route_work_time + travel_min + service_min) / 60.0
DecodeStep(v, st, wo_idx) ==
    LET c == st.c
        tech == technicians[v]
        wo == work_orders[wo_idx]
        wo_node == wo_idx + NumTechnicians
        max_hours == Hours(Get(tech, "max_hours", 8))
        dist == distance_matrix[c.current_node][wo_node]
        travel_min == estimate_travel_time(dist, AvgSpeed)
        service_min == Minutes(Get(wo, "duration_minutes", 0))
        arrival0 == c.current_time + travel_min
        arrival == IF arrival0 < wo.time_window_start
                   THEN wo.time_window_start ELSE arrival0
        departure == arrival + service_min
        total_hours_check ==
            c.route_duration + c.route_work_time + travel_min + service_min
        over_limit ==
            IF total_hours_check = max_hours
            THEN ~FloatLeq(HoursF(RouteMinutesF(c) \o <<DoubleOf(travel_min, 100),
                                                       DoubleOf(service_min, 100)>>),
                           DoubleOf(max_hours, 6000))
            ELSE total_hours_check > max_hours
    IN  IF st.raised THEN st
        ELSE IF ~CheckSkillMatch(tech, wo) THEN st
        ELSE IF EstimateRaises(dist, AvgSpeed) THEN [st EXCEPT !.raised = TRUE]
        ELSE IF arrival > wo.time_window_end THEN st
        ELSE IF departure > tech.shift_end THEN st
        ELSE IF over_limit THEN st
        ELSE [st EXCEPT !.c =
                [stops |-> Append(c.stops,
                              MakeStop(wo, c.seq, arrival, departure, dist, travel_min)),
                 route_distance |-> c.route_distance + dist,
                 route_duration |-> c.route_duration + travel_min,
                 route_work_time |-> c.route_work_time + service_min,
                 current_node |-> wo_node,
                 current_time |-> departure,
                 used_hours |-> 0,
                 seq |-> c.seq + 1]]

RECURSIVE DecodeRoute(_, _, _)
DecodeRoute(v, st, wo_indices) ==
    IF wo_indices = <<>> THEN st
    ELSE DecodeRoute(v, DecodeStep(v, st, Head(wo_indices)), Tail(wo_indices))

\* 'for v_idx in range(num_technicians)': d = [routes, total_distance,
\* total_duration, cur, raised]; after an exception cur keeps the partial route
RECURSIVE DecodeFrom(_, _, _)
DecodeFrom(best, v, d) ==
    IF v > NumTechnicians \/ d.raised THEN d
    ELSE LET close(st) ==
                 IF st.raised THEN [d EXCEPT !.raised = TRUE, !.cur = st.c]
                 ELSE DecodeFrom(best, v + 1,
                         [d EXCEPT !.routes = Append(@, MakeRoute(v, st.c)),
                                   !.total_distance = @ + st.c.route_distance,
                                   !.total_duration = @ + st.c.route_duration])
         IN  close(DecodeRoute(v, [c |-> StartRoute(v), raised |-> FALSE],
                               TechOrders(best, v)))

DecodeRoutes(best) ==
    DecodeFrom(best, 1, [routes |-> <<>>, total_distance |-> 0,
                         total_duration |-> 0, cur |-> NoRoute, raised |-> FALSE])

AssignedIds(rs) ==
    UNION {{rs[i].stops[k].work_order_id : k \in DOMAIN rs[i].stops} : i \in DOMAIN rs}

\* unassigned = sorted(all_order_ids - assigned_ids)
GeneticUnassigned(rs) ==
    LET all_order_ids == {work_orders[i].id : i \in DOMAIN work_orders}
    IN  SortedSet(all_order_ids \ AssignedIds(rs))

\* the OptimizationResult of _decode_solution; fitness metadata is rounded to
\* 4 decimals (unit 1/10000); improvement_pct, a ratio of two of these
\* fields, is left out of the metadata
GeneticResult(rs, td, tdur, best, history) ==
    [routes |-> rs,
     total_distance |-> RoundDiv(td, 10),
     total_duration |-> tdur,
     unassigned_orders |-> GeneticUnassigned(rs),
     algorithm |-> "GeneticSolver",
     metadata |->
        [best_fitness |-> RoundDiv(best.fitness * 10, 3),
         convergence_history_length |-> Len(history),
         initial_fitness |-> RoundDiv(history[1] * 10, 3),
         final_fitness |-> RoundDiv(history[Len(history)] * 10, 3),
         num_vehicles_used |-> NumVehiclesUsed(rs)]]

-----------------------------------------------------------------------------
(* Initial states: a solver object about to be constructed *)

Algorithms == {"GreedySolver", "GeneticSolver"}

PickOrders(idxs) == SeqFrom([i \in DOMAIN idxs |-> OrderPool[idxs[i]]], Len(idxs))
PickTechs(idxs) == SeqFrom([i \in DOMAIN idxs |-> TechPool[idxs[i]]], Len(idxs))

\* config dict of a Greedy solve: speed 30 is left to the default
GreedyConfig(spd) ==
    IF spd = 30 THEN [k \in {} |-> 0] ELSE [avg_speed_mph |-> spd]

Idle ==
    /\ pc = "new"
    /\ error = ""
    /\ v_idx = 0
    /\ assigned = {}
    /\ cur = NoRoute
    /\ routes = <<>>
    /\ total_distance = 0
    /\ total_duration = 0
    /\ result = <<>>
    /\ population = <<>>
    /\ gen = 0
    /\ convergence_history = <<>>
    /\ run = 1
    /\ prev_result = <<>>
    /\ solution = <<>>
    /\ vr_input = <<>>
    /\ violations = <<>>

\* well-shaped inputs for Greedy, possibly with a defect of value (the
\* defects are combined with the default speed only)
InitGreedy ==
    \E os \in DistinctIndexSeqs(Len(OrderPool), MaxOrders),
       ts \in DistinctIndexSeqs(Len(TechPool), MaxTechs),
       spd \in Speeds, defect \in ValueDefects :
        /\ spd # 30 => defect = "none"
        /\ algorithm = "GreedySolver"
        /\ work_orders = PickOrders(os)
        /\ technicians = ApplyHoursDefect(PickTechs(ts), defect)
        /\ distance_matrix =
              ApplyMatrixDefect(BuildDistanceMatrix(PickTechs(ts), PickOrders(os)),
                                Len(ts), Len(os), defect)
        /\ config = GreedyConfig(ApplySpeedDefect(spd, defect))
        /\ rng = 0
        /\ Idle

\* config dicts of the Genetic solves (mutation_rate in percent)
GeneticConfigs ==
    { [population_size |-> 4, generations |-> 2, mutation_rate |-> 30,
       elite_size |-> 1, tournament_size |-> 2, seed |-> 7],
      [population_size |-> 3, generations |-> 2, mutation_rate |-> 30,
       elite_size |-> 0, tournament_size |-> 5, seed |-> 42],
      [population_size |-> 4, generations |-> 1, mutation_rate |-> 30,
       elite_size |-> 1, tournament_size |-> 2] }

\* states the random module may be in when the solver is constructed
RngStates == {1, 40503}

\* well-shaped inputs for Genetic, possibly with a negative matrix entry
InitGenetic ==
    \E os \in IncreasingIndexSeqs(Len(OrderPool), MaxOrders),
       ts \in DistinctIndexSeqs(Len(TechPool), MaxTechs),
       cfg \in GeneticConfigs, r \in RngStates,
       defect \in {"none", "neg_dist_orders"} :
        /\ algorithm = "GeneticSolver"
        /\ work_orders = PickOrders(os)
        /\ technicians = PickTechs(ts)
        /\ distance_matrix =
              ApplyMatrixDefect(BuildDistanceMatrix(PickTechs(ts), PickOrders(os)),
                                Len(ts), Len(os), defect)
        /\ config = cfg
        /\ rng = r
        /\ Idle

\* inputs with any combination of structural defects
InitDefective ==
    \E alg \in Algorithms, ds \in (SUBSET StructuralDefects) \ {{}} :
        LET wos == ApplyOrderDefects(PickOrders(<<1, 4>>), ds)
            techs == ApplyTechDefects(PickTechs(<<1, 2>>), ds)
        IN  /\ algorithm = alg
            /\ work_orders = wos
            /\ technicians = techs
            /\ distance_matrix =
                  ApplyShapeDefects(ZeroMatrix(Len(wos) + Len(techs)), ds)
            /\ config = [k \in {} |-> 0]
            /\ rng = 0
            /\ Idle

-----------------------------------------------------------------------------
(* Actions *)

Inputs == <<work_orders, technicians, distance_matrix, config, algorithm>>
GeneticState == <<population, gen, convergence_history>>
RouteState == <<v_idx, assigned, cur, routes, total_distance, total_duration>>
OtherState == <<solution, vr_input, violations>>

\* BaseSolver.__init__: _validate_inputs raises ValueError or returns
Validate ==
    /\ pc = "new"
    /\ LET err == ValidationError(work_orders, technicians, distance_matrix)
       IN  /\ error' = err
           /\ pc' = IF err = "" THEN "ready" ELSE "rejected"
    /\ UNCHANGED <<Inputs, OtherState, RouteState, GeneticState, result, rng, run,
                   prev_result>>

\* variant that sorts self.work_orders in place by priority
GreedyStartSortingInPlace ==
    /\ pc = "ready"
    /\ algorithm = "GreedySolver"
    /\ work_orders' = SeqFrom([i \in 1..NumOrders |-> work_orders[SortedWoIndices[i]]],
                              NumOrders)
    /\ pc' = "greedy_route"
    /\ v_idx' = 1
    /\ assigned' = {}
    /\ cur' = StartRoute(1)
    /\ routes' = <<>>
    /\ total_distance' = 0
    /\ total_duration' = 0
    /\ UNCHANGED <<technicians, distance_matrix, config, algorithm, OtherState,
                   GeneticState, error, result, rng, run, prev_result>>

\* GreedySolver._solve_impl up to the first route
GreedyStart ==
    /\ pc = "ready"
    /\ algorithm = "GreedySolver"
    /\ pc' = "greedy_route"
    /\ v_idx' = 1
    /\ assigned' = {}
    /\ cur' = StartRoute(1)
    /\ routes' = <<>>
    /\ total_distance' = 0
    /\ total_duration' = 0
    /\ UNCHANGED <<Inputs, OtherState, GeneticState, error, result, rng, run, prev_result>>

\* variant of the commit that leaves out assigned.add(best_wo_idx)
GreedyCommitNotMarking ==
    /\ pc = "greedy_route"
    /\ LET s == GreedyScan(v_idx, cur, assigned)
       IN  /\ ~s.raised
           /\ s.best_wo_idx # 0
           /\ assigned' = assigned
           /\ cur' = CommitStop(cur, s.best_wo_idx)
    /\ UNCHANGED <<Inputs, OtherState, GeneticState, pc, error, v_idx, routes,
                   total_distance, total_duration, result, rng, run, prev_result>>

\* a pass of the while loop that finds a best candidate and commits it
GreedyCommit ==
    /\ pc = "greedy_route"
    /\ LET s == GreedyScan(v_idx, cur, assigned)
       IN  /\ ~s.raised
           /\ s.best_wo_idx # 0
           /\ assigned' = assigned \cup {s.best_wo_idx}
           /\ cur' = CommitStop(cur, s.best_wo_idx)
    /\ UNCHANGED <<Inputs, OtherState, GeneticState, pc, error, v_idx, routes,
                   total_distance, total_duration, result, rng, run, prev_result>>

\* a pass that finds no candidate: the route is complete, next technician
GreedyEndRoute ==
    /\ pc = "greedy_route"
    /\ LET s == GreedyScan(v_idx, cur, assigned)
           route == MakeRoute(v_idx, cur)
       IN  /\ ~s.raised
           /\ s.best_wo_idx = 0
           /\ routes' = Append(routes, route)
           /\ total_distance' = total_distance + route.total_distance
           /\ total_duration' = total_duration + route.total_duration
    /\ IF v_idx < NumTechnicians
       THEN /\ v_idx' = v_idx + 1
            /\ cur' = StartRoute(v_idx + 1)
            /\ pc' = pc
       ELSE /\ v_idx' = v_idx
            /\ cur' = NoRoute
            /\ pc' = "greedy_finish"
    /\ UNCHANGED <<Inputs, OtherState, GeneticState, error, assigned, result, rng, run,
                   prev_result>>

\* a pass in which estimate_travel_time or check_daily_limit raises
GreedyRaise ==
    /\ pc = "greedy_route"
    /\ GreedyScan(v_idx, cur, assigned).raised
    /\ pc' = "error"
    /\ error' = "ValueError"
    /\ UNCHANGED <<Inputs, OtherState, GeneticState, RouteState, result, rng, run,
                   prev_result>>

\* the end of GreedySolver._solve_impl: the result is built and returned
GreedyFinish ==
    /\ pc = "greedy_finish"
    /\ result' = GreedyResult(routes, total_distance, total_duration, assigned)
    /\ pc' = "done"
    /\ UNCHANGED <<Inputs, OtherState, GeneticState, RouteState, error, rng, run,
                   prev_result>>

\* variant of the seeding that leaves the generator as the last solve left it
StartRngUnseeded == rng

\* seed = self.config.get("seed"); if seed is not None: random.seed(seed)
StartRng == IF "seed" \in DOMAIN config THEN SeedState(config.seed) ELSE rng

\* GeneticSolver._solve_impl up to the evolution loop: seed, initial
\* population, initial fitness, first sort
GeneticStart ==
    /\ pc = "ready"
    /\ algorithm = "GeneticSolver"
    /\ LET begin(initial) ==
               /\ pc' = "genetic_loop"
               /\ error' = error
               /\ population' = initial
               /\ convergence_history' = <<initial[1].fitness>>
           evaluated(ip, ev) ==
               /\ rng' = ip.rng
               /\ IF ev.raised
                  THEN /\ pc' = "error"
                       /\ error' = "ValueError"
                       /\ UNCHANGED <<population, convergence_history>>
                  ELSE begin(SortByFitness(ev.val))
           evaluate(ip) == evaluated(ip, EvaluateAll(ip.val, Len(ip.val)))
       IN  evaluate(InitializePopulation(StartRng, PopulationSize, <<>>))
    /\ gen' = 0
    /\ v_idx' = 0
    /\ assigned' = {}
    /\ cur' = NoRoute
    /\ routes' = <<>>
    /\ total_distance' = 0
    /\ total_duration' = 0
    /\ UNCHANGED <<Inputs, OtherState, result, run, prev_result>>

\* one iteration of the evolution loop
GeneticGeneration ==
    /\ pc = "genetic_loop"
    /\ gen < Generations
    /\ LET replace(ng) ==
               /\ rng' = ng.rng
               /\ IF ng.raised
                  THEN /\ pc' = "error"
                       /\ error' = "ValueError"
                       /\ UNCHANGED GeneticState
                  ELSE /\ pc' = pc
                       /\ error' = error
                       /\ population' = ng.val
                       /\ convergence_history' =
                             Append(convergence_history, ng.val[1].fitness)
                       /\ gen' = gen + 1
       IN  replace(NextGeneration(rng, population))
    /\ UNCHANGED <<Inputs, OtherState, RouteState, result, run, prev_result>>

\* after the loop: best = population[0] is decoded and returned
GeneticDecode ==
    /\ pc = "genetic_loop"
    /\ gen >= Generations
    /\ LET best == population[1]
           decoded(d) ==
               /\ routes' = d.routes
               /\ cur' = d.cur
               /\ total_distance' = d.total_distance
               /\ total_duration' = d.total_duration
               /\ assigned' = AssignedIds(d.routes)
               /\ IF d.raised
                  THEN /\ pc' = "error"
                       /\ error' = "ValueError"
                       /\ result' = result
                  ELSE /\ pc' = "done"
                       /\ error' = error
                       /\ result' = GeneticResult(d.routes, d.total_distance,
                                                  d.total_duration, best,
                                                  convergence_history)
       IN  decoded(DecodeRoutes(best))
    /\ UNCHANGED <<Inputs, OtherState, GeneticState, v_idx, rng, run, prev_result>>

\* the caller solves the same problem a second time in the same process
SolveAgain ==
    /\ pc = "done"
    /\ run = 1
    /\ algorithm = "GeneticSolver"
    /\ run' = 2
    /\ prev_result' = result
    /\ pc' = "ready"
    /\ UNCHANGED <<Inputs, OtherState, GeneticState, RouteState, error, result, rng>>

Init == InitGreedy \/ InitGenetic \/ InitDefective

Next ==
    \/ Validate
    \/ GreedyStart
    \/ GreedyCommit
    \/ GreedyEndRoute
    \/ GreedyRaise
    \/ GreedyFinish
    \/ GeneticStart
    \/ GeneticGeneration
    \/ GeneticDecode
    \/ SolveAgain

Spec == Init /\ [][Next]_vars

-----------------------------------------------------------------------------
(* Long routes: one technician and many work orders a few yards apart *)

\* number of work orders on the street
MaxLongRoute == 28

\* the inputs of Init, and work orders 0.006 mile apart on a line that starts
\* at the technician's home, each of 5 minutes, with the distance matrix of
\* these points
InitLongRoute ==
    \/ Init
    \/ \E n \in {MaxLongRoute - 8, MaxLongRoute}, spd \in Speeds :
           /\ algorithm = "GreedySolver"
           /\ work_orders =
                 SeqFrom([i \in 1..n |->
                             [id |-> i, property_id |-> 100 + i, lat |-> 5, lng |-> 0,
                              priority |-> "medium", required_skills |-> {},
                              duration_minutes |-> 5,
                              time_window_start |-> Minutes(0),
                              time_window_end |-> Minutes(480)]], n)
           /\ technicians = PickTechs(<<1>>)
           /\ distance_matrix =
                 SeqFrom([a \in 1..(n + 1) |->
                             SeqFrom([b \in 1..(n + 1) |-> 6 * Abs(a - b)], n + 1)],
                         n + 1)
           /\ config = GreedyConfig(spd)
           /\ rng = 0
           /\ Idle

\* one technician with a day of 8 hours in a shift of 10, and two work orders
\* down a road: the first, of s1 minutes, t1 / 100 minutes from the
\* technician's home, the second, of s2 minutes, t2 / 100 minutes further
\* (5 * t yards of 1/1000 mile are t / 100 minutes at 30 mph); with
\* t1 + t2 + 100 * (s1 + s2) = 48000 the two fill the 8 hours exactly; for Greedy
\* with the default speed, for Genetic with the configurations of Init
InitHours ==
    \E s1 \in {15, 240},
       t1, t2 \in {3000, 5400, 5484, 3959, 1816, 2541, 1800, 600, 1666, 4534},
       s2 \in {150, 155, 167, 175, 177, 180, 403} :
        /\ \/ /\ algorithm = "GreedySolver"
              /\ config = [k \in {} |-> 0]
              /\ rng = 0
           \/ \E cfg \in GeneticConfigs, r \in RngStates :
                  /\ algorithm = "GeneticSolver"
                  /\ config = cfg
                  /\ rng = r
        /\ work_orders =
              <<[id |-> 1, property_id |-> 101, lat |-> 0, lng |-> 0,
                 priority |-> "high", required_skills |-> {},
                 duration_minutes |-> s1,
                 time_window_start |-> Minutes(0), time_window_end |-> Minutes(600)],
                [id |-> 2, property_id |-> 102, lat |-> 0, lng |-> 0,
                 priority |-> "low", required_skills |-> {},
                 duration_minutes |-> s2,
                 time_window_start |-> Minutes(0), time_window_end |-> Minutes(600)]>>
        /\ technicians =
              <<[id |-> 1, name |-> "Ann", skills |-> {},
                 home_lat |-> 0, home_lng |-> 0, max_hours |-> 8,
                 shift_start |-> Minutes(0), shift_end |-> Minutes(600)]>>
        /\ distance_matrix =
              <<<<0, 5 * t1, 5 * (t1 + t2)>>,
                <<5 * t1, 0, 5 * t2>>,
                <<5 * (t1 + t2), 5 * t2, 0>>>>
        /\ Idle

NextHours ==
    \/ Validate
    \/ GreedyStart
    \/ GreedyCommit
    \/ GreedyEndRoute
    \/ GreedyFinish
    \/ GeneticStart
    \/ GeneticGeneration
    \/ GeneticDecode

SpecHours == InitHours /\ [][NextHours]_vars

\* the inputs of Init, and one work order with a window of 100 minutes
\* between two technicians: the first lives 1 mile away (2 minutes) and
\* starts late minutes before the window ends, the second lives far miles
\* away, starts at the opening of the window and arrives in time
InitPenalty ==
    \/ Init
    \/ \E late \in {1, 31}, far \in {2, 50}, cfg \in GeneticConfigs, r \in RngStates :
           /\ algorithm = "GeneticSolver"
           /\ work_orders =
                 <<[id |-> 1, property_id |-> 101, lat |-> 0, lng |-> 0,
                    priority |-> "low", required_skills |-> {},
                    duration_minutes |-> 30,
                    time_window_start |-> Minutes(0),
                    time_window_end |-> Minutes(100)]>>
           /\ technicians =
                 <<[id |-> 1, name |-> "Ann", skills |-> {},
                    home_lat |-> 1, home_lng |-> 0, max_hours |-> 8,
                    shift_start |-> Minutes(100 - late), shift_end |-> Minutes(600)],
                   [id |-> 2, name |-> "Bob", skills |-> {},
                    home_lat |-> far, home_lng |-> 0, max_hours |-> 8,
                    shift_start |-> Minutes(0), shift_end |-> Minutes(600)]>>
           /\ distance_matrix =
                 <<<<0, 1000 * (far + 1), 1000>>,
                   <<1000 * (far + 1), 0, 1000 * far>>,
                   <<1000, 1000 * far, 0>>>>
           /\ config = cfg
           /\ rng = r
           /\ Idle

SpecPenalty == InitPenalty /\ [][Next]_vars

SpecLongRoutes == InitLongRoute /\ [][Next]_vars

-----------------------------------------------------------------------------
(* Two Genetic solves in one process.  The module-level functions of
   `random` used by the solver all act on the one generator of the process,
   so the only thing a second solve on unshared inputs does to the first is
   to move that generator: by its own random.seed(seed) and by its draws. *)

MaxParallelDraws == 1

RECURSIVE Draws(_, _)
Draws(r, k) == IF k = 0 THEN r ELSE Draws(RngNext(r), k - 1)

\* another solve, started while the second run is inside its evolution loop,
\* seeds the generator and draws from it before the loop goes on
ParallelSolveStep ==
    /\ pc = "genetic_loop"
    /\ run = 2
    /\ \E s \in {7, 11}, k \in 0..MaxParallelDraws :
           /\ rng' = Draws(SeedState(s), k)
           /\ rng' # rng
    /\ UNCHANGED <<Inputs, OtherState, GeneticState, RouteState, pc, error, result, run,
                   prev_result>>

NextParallel ==
    \/ Validate
    \/ GeneticStart
    \/ GeneticGeneration
    \/ GeneticDecode
    \/ SolveAgain
    \/ ParallelSolveStep

SpecParallel == InitGenetic /\ [][NextParallel]_vars

-----------------------------------------------------------------------------
(* VRPSolver.  _solve_impl posts a routing model to an engine that is a
   library outside the repository, and decodes what the engine returns.  The
   engine returns nothing, or an assignment that satisfies every constraint
   posted; which of these it returns is its choice.  Inside the engine times
   are whole minutes. *)

Max(a, b) == IF a > b THEN a ELSE b

\* time_callback: int(travel_min + service_min)
TimeCallback(from_node, to_node) ==
    LET travel_min ==
            estimate_travel_time(distance_matrix[from_node][to_node], AvgSpeed)
        service_min ==
            IF to_node > NumTechnicians
            THEN Minutes(Get(work_orders[to_node - NumTechnicians],
                             "duration_minutes", 0))
            ELSE 0
    IN  (travel_min + service_min) \div 100

\* tech_max_min = int(max_hours * 60), the bound of the vehicle's end node
TechMaxMin(v) == Get(technicians[v], "max_hours", 8) * 60

\* max_daily_minutes: slack bound and capacity of the Time dimension
MaxDailyMinutes ==
    CHOOSE m \in {TechMaxMin(v) : v \in DOMAIN technicians} :
        \A v \in DOMAIN technicians : TechMaxMin(v) <= m

\* shift_ref of the work-order windows: the first technician's shift start
ShiftRef == technicians[1].shift_start

\* SetRange(start_min, end_min) of a work-order node
StartMin(wo) == Max(0, (wo.time_window_start - ShiftRef) \div 100)
EndMin(wo) == (wo.time_window_end - ShiftRef) \div 100

\* SetRange(0, shift_len_min) of a vehicle's start and end node
ShiftLenMin(v) ==
    (technicians[v].shift_end - technicians[v].shift_start) \div 100

\* allowed_vehicles of a work-order node
AllowedVehicles(wo_idx) ==
    {v \in DOMAIN technicians : FeasibilityMask(v, wo_idx)}

\* 'if allowed_vehicles: VehicleVar(index).SetValues(allowed_vehicles)': an
\* empty list posts no restriction
VehicleAllowed(v, wo_idx) ==
    AllowedVehicles(wo_idx) = {} \/ v \in AllowedVehicles(wo_idx)

\* the orderings of the subsets of S
RECURSIVE Arrangements(_)
Arrangements(S) ==
    {<<>>} \cup UNION {{<<x>> \o a : a \in Arrangements(S \ {x})} : x \in S}

\* one path per vehicle v..T over the work orders of remaining; an order left
\* on no path is dropped (AddDisjunction)
RECURSIVE Paths(_, _)
Paths(v, remaining) ==
    IF v > NumTechnicians THEN {<<>>}
    ELSE UNION {{<<p>> \o rest :
                    rest \in Paths(v + 1, remaining \ {p[i] : i \in DOMAIN p})} :
                p \in Arrangements({w \in remaining : VehicleAllowed(v, w)})}

\* the cumulative times along vehicle v's path from position i on, with the
\* least slack at every node: [ok, cumuls]
RECURSIVE Cumuls(_, _, _, _, _, _)
Cumuls(v, path, i, prev_node, prev_cumul, acc) ==
    IF i > Len(path)
    THEN LET at_end(c) ==
                 [ok |-> /\ c <= TechMaxMin(v)
                         /\ c <= ShiftLenMin(v)
                         /\ c <= MaxDailyMinutes,
                  cumuls |-> acc]
         IN  at_end(prev_cumul + TimeCallback(prev_node, v))
    ELSE LET wo == work_orders[path[i]]
             node == path[i] + NumTechnicians
             visit(c) ==
                 IF c > EndMin(wo) \/ c > MaxDailyMinutes
                 THEN [ok |-> FALSE, cumuls |-> acc]
                 ELSE Cumuls(v, path, i + 1, node, c, Append(acc, c))
         IN  visit(Max(prev_cumul + TimeCallback(prev_node, node), StartMin(wo)))

\* values the engine may give the cumulative time of a vehicle's start node
\* (it is posted the range 0..shift_len_min)
StartCumuls == {0, 30}

\* the assignment with the given paths and start time, if it satisfies the
\* constraints
Feasible(paths, start) ==
    \A v \in DOMAIN technicians :
        /\ start <= ShiftLenMin(v)
        /\ start <= MaxDailyMinutes
        /\ Cumuls(v, paths[v], 1, v, start, <<>>).ok

Assignment(paths, start) ==
    [found |-> TRUE,
     paths |-> paths,
     cumul |-> SeqFrom([v \in DOMAIN technicians |->
                           Cumuls(v, paths[v], 1, v, start, <<>>).cumuls],
                       NumTechnicians)]

\* assignments SolveWithParameters may return
EngineAssignments ==
    {Assignment(x[1], x[2]) :
        x \in {y \in Paths(1, DOMAIN work_orders) \X StartCumuls :
                  Feasible(y[1], y[2])}}

\* one visited work-order node of _parse_solution's while loop
ParseStop(v, c, wo_idx, arrival_min) ==
    LET wo == work_orders[wo_idx]
        node == wo_idx + NumTechnicians
        dist == distance_matrix[c.current_node][node]
        travel_min == estimate_travel_time(dist, AvgSpeed)
        service_min == Minutes(Get(wo, "duration_minutes", 0))
        arrival_dt == technicians[v].shift_start + Minutes(arrival_min)
        departure_dt == arrival_dt + service_min
    IN  [stops |-> Append(c.stops,
                     MakeStop(wo, c.seq, arrival_dt, departure_dt, dist, travel_min)),
         route_distance |-> c.route_distance + dist,
         route_duration |-> c.route_duration + travel_min,
         route_work_time |-> c.route_work_time + service_min,
         current_node |-> node,
         current_time |-> departure_dt,
         used_hours |-> c.route_duration + travel_min
                            + c.route_work_time + service_min,
         seq |-> c.seq + 1]

RECURSIVE ParseRoute(_, _, _, _)
ParseRoute(v, sol, i, c) ==
    IF i > Len(sol.paths[v]) THEN c
    ELSE ParseRoute(v, sol, i + 1,
                    ParseStop(v, c, sol.paths[v][i], sol.cumul[v][i]))

\* 'for v_idx in range(num_technicians)' of _parse_solution
RECURSIVE ParseFrom(_, _, _)
ParseFrom(sol, v, d) ==
    IF v > NumTechnicians THEN d
    ELSE LET close(c) ==
                 ParseFrom(sol, v + 1,
                     [routes |-> Append(d.routes, MakeRoute(v, c)),
                      total_distance |-> d.total_distance + c.route_distance,
                      total_duration |-> d.total_duration + c.route_duration])
         IN  close(ParseRoute(v, sol, 1, StartRoute(v)))

\* the OptimizationResult of _parse_solution
ParseSolution(sol) ==
    LET build(d) ==
            [routes |-> d.routes,
             total_distance |-> RoundDiv(d.total_distance, 10),
             total_duration |-> d.total_duration,
             unassigned_orders |-> GeneticUnassigned(d.routes),
             algorithm |-> "VRPSolver",
             metadata |-> [status |-> "SOLUTION_FOUND",
                           num_vehicles_used |-> NumVehiclesUsed(d.routes)]]
    IN  build(ParseFrom(sol, 1, [routes |-> <<>>, total_distance |-> 0,
                                 total_duration |-> 0]))

\* variant of the no-solution result that reports nothing as unassigned
NoSolutionResultEmpty ==
    [routes |-> <<>>,
     total_distance |-> 0,
     total_duration |-> 0,
     unassigned_orders |-> <<>>,
     algorithm |-> "VRPSolver",
     metadata |-> [status |-> "NO_SOLUTION"]]

\* the OptimizationResult returned 'if not solution'
NoSolutionResult ==
    [routes |-> <<>>,
     total_distance |-> 0,
     total_duration |-> 0,
     unassigned_orders |->
         SeqFrom([i \in DOMAIN work_orders |-> work_orders[i].id], NumOrders),
     algorithm |-> "VRPSolver",
     metadata |-> [status |-> "NO_SOLUTION"]]

InitVrp ==
    \E os \in IncreasingIndexSeqs(Len(OrderPool), MaxOrders),
       ts \in {<<1>>, <<3>>, <<1, 3>>, <<3, 2>>}, spd \in Speeds :
        /\ algorithm = "VRPSolver"
        /\ work_orders = PickOrders(os)
        /\ technicians = PickTechs(ts)
        /\ distance_matrix = BuildDistanceMatrix(PickTechs(ts), PickOrders(os))
        /\ config = GreedyConfig(spd)
        /\ rng = 0
        /\ Idle

\* _solve_impl when the engine returns an assignment
VrpSolveFound ==
    /\ pc = "ready"
    /\ algorithm = "VRPSolver"
    /\ \E sol \in EngineAssignments :
           /\ solution' = sol
           /\ result' = ParseSolution(sol)
    /\ routes' = result'.routes
    /\ pc' = "done"
    /\ UNCHANGED <<Inputs, GeneticState, v_idx, assigned, cur, total_distance,
                   total_duration, error, rng, run, prev_result, vr_input,
                   violations>>

\* _solve_impl when the engine returns nothing
VrpSolveNoSolution ==
    /\ pc = "ready"
    /\ algorithm = "VRPSolver"
    /\ solution' = [found |-> FALSE]
    /\ result' = NoSolutionResult
    /\ pc' = "done"
    /\ UNCHANGED <<Inputs, GeneticState, RouteState, error, rng, run,
                   prev_result, vr_input, violations>>

NextVrp ==
    \/ Validate
    \/ VrpSolveFound
    \/ VrpSolveNoSolution

SpecVrp == InitVrp /\ [][NextVrp]_vars

-----------------------------------------------------------------------------
(* validate_route(route, technician, work_orders).  A violation string is
   modelled by the check that produced it and the index of its stop (0-based;
   -1 for the check of the whole route).  A key whose value is None is a key
   the record does not have. *)

Has(rec, key) == key \in DOMAIN rec

\* check_time_window raises ValueError when the window is inverted
TimeWindowRaises(window_start, window_end) == window_start > window_end

check_time_window(arrival_time, window_start, window_end) ==
    window_start <= arrival_time /\ arrival_time <= window_end

Violation(check, stop_idx) == [check |-> check, stop |-> stop_idx]

\* the window check of a stop is reached with all three times present
WindowChecked(stop, wo) ==
    Has(stop, "arrival_time") /\ Has(wo, "time_window_start")
        /\ Has(wo, "time_window_end")

\* variant of the checks of one stop that reports the first failure only
StopViolationsFirstOnly(stop_idx, stop, wo, technician) ==
    IF ~(Get(wo, "required_skills", {}) \subseteq Get(technician, "skills", {}))
    THEN <<Violation("skill", stop_idx)>>
    ELSE IF /\ WindowChecked(stop, wo)
            /\ ~check_time_window(stop.arrival_time, wo.time_window_start,
                                  wo.time_window_end)
    THEN <<Violation("window", stop_idx)>>
    ELSE IF /\ Has(stop, "arrival_time") /\ Has(technician, "shift_start")
            /\ stop.arrival_time < technician.shift_start
    THEN <<Violation("shift_start", stop_idx)>>
    ELSE IF /\ Has(stop, "departure_time") /\ Has(technician, "shift_end")
            /\ stop.departure_time > technician.shift_end
    THEN <<Violation("shift_end", stop_idx)>>
    ELSE <<>>

\* the checks of one stop whose work order is in the map, in code order
StopViolations(stop_idx, stop, wo, technician) ==
    (IF ~(Get(wo, "required_skills", {}) \subseteq Get(technician, "skills", {}))
     THEN <<Violation("skill", stop_idx)>> ELSE <<>>)
    \o (IF /\ WindowChecked(stop, wo)
           /\ ~check_time_window(stop.arrival_time, wo.time_window_start,
                                 wo.time_window_end)
        THEN <<Violation("window", stop_idx)>> ELSE <<>>)
    \o (IF /\ Has(stop, "arrival_time") /\ Has(technician, "shift_start")
           /\ stop.arrival_time < technician.shift_start
        THEN <<Violation("shift_start", stop_idx)>> ELSE <<>>)
    \o (IF /\ Has(stop, "departure_time") /\ Has(technician, "shift_end")
           /\ stop.departure_time > technician.shift_end
        THEN <<Violation("shift_end", stop_idx)>> ELSE <<>>)

\* one iteration of 'for stop_idx, stop in enumerate(route)';
\* st = [violations, cumulative_minutes, legs, raised]; legs keeps the
\* <<duration_min, travel_min>> that were added to cumulative_minutes
ValidateStop(st, stop_idx, stop, technician, wos) ==
    LET wo_id == Get(stop, "work_order_id", 0)
    IN  IF wo_id \notin DOMAIN wos
        THEN [st EXCEPT !.violations = Append(@, Violation("missing", stop_idx))]
        ELSE IF /\ WindowChecked(stop, wos[wo_id])
                /\ TimeWindowRaises(wos[wo_id].time_window_start,
                                    wos[wo_id].time_window_end)
        THEN [st EXCEPT !.raised = TRUE]
        ELSE [st EXCEPT
                !.violations =
                    @ \o StopViolations(stop_idx, stop, wos[wo_id], technician),
                !.cumulative_minutes =
                    @ + Minutes(Get(wos[wo_id], "duration_minutes", 0))
                      + Get(stop, "travel_duration", 0),
                !.legs =
                    Append(@, <<Minutes(Get(wos[wo_id], "duration_minutes", 0)),
                                Get(stop, "travel_duration", 0)>>)]

RECURSIVE ValidateStops(_, _, _, _, _)
ValidateStops(route, technician, wos, i, st) ==
    IF i > Len(route) \/ st.raised THEN st
    ELSE ValidateStops(route, technician, wos, i + 1,
                       ValidateStop(st, i - 1, route[i], technician, wos))

\* validate_route: [raised, violations].  The minutes are kept exactly;
\* when they equal the limit the floats decide 'cumulative_hours >
\* max_hours': cumulative_minutes = 0.0, 'cumulative_minutes +=
\* duration_min + travel_min' per stop, and cumulative_minutes / 60.0
validate_route(route, technician, wos) ==
    LET max_hours == Hours(Get(technician, "max_hours", 8))
        added(legs) ==
            IF Len(legs) = 0 THEN <<>>
            ELSE SeqFrom([k \in DOMAIN legs |->
                             FloatAdd(DoubleOf(legs[k][1], 100),
                                      DoubleOf(legs[k][2], 100))], Len(legs))
        over(st) ==
            IF st.cumulative_minutes = max_hours /\ Len(st.legs) > 0
            THEN ~FloatLeq(HoursF(added(st.legs)), DoubleOf(max_hours, 6000))
            ELSE st.cumulative_minutes > max_hours
        daily(st) ==
            [raised |-> st.raised,
             violations |->
                 IF over(st)
                 THEN Append(st.violations, Violation("max_hours", -1))
                 ELSE st.violations]
    IN  daily(ValidateStops(route, technician, wos, 1,
                            [violations |-> <<>>, cumulative_minutes |-> 0,
                             legs |-> <<>>, raised |-> FALSE]))

\* longest route handed to validate_route
MaxRouteStops == 2

\* the work-order map: an hvac order with a day-long window, a plumbing order
\* with the window 120-180, and an order whose window is inverted
VrWorkOrders ==
    [id \in {1, 5, 7} |->
        IF id = 5 THEN OrderPool[1]
        ELSE IF id = 1 THEN OrderPool[4]
        ELSE [OrderPool[3] EXCEPT !.id = 7,
                                  !.time_window_start = Minutes(300),
                                  !.time_window_end = Minutes(200)]]

\* stops: every combination of the times on the two orders, and the stops
\* with a key missing, an unknown order or the inverted window
VrStops ==
    {[work_order_id |-> id, arrival_time |-> Minutes(a),
      departure_time |-> Minutes(d), travel_duration |-> Minutes(t)] :
        id \in {1, 5}, a \in {-10, 50, 150, 500}, d \in {200, 500},
        t \in {0, 450}}
    \cup {[work_order_id |-> 99, arrival_time |-> Minutes(150),
           departure_time |-> Minutes(200), travel_duration |-> 0],
          [work_order_id |-> 7, arrival_time |-> Minutes(150),
           departure_time |-> Minutes(200), travel_duration |-> 0],
          [work_order_id |-> 5, departure_time |-> Minutes(500),
           travel_duration |-> 0],
          [work_order_id |-> 1, arrival_time |-> Minutes(50),
           travel_duration |-> 0],
          [work_order_id |-> 5, arrival_time |-> Minutes(150),
           departure_time |-> Minutes(200)]}

\* routes of up to MaxRouteStops stops; technicians: two with a shift, one
\* whose shift times are None
InitValidateRoute ==
    \E r \in UNION {[1..n -> VrStops] : n \in 0..MaxRouteStops},
       t \in {TechPool[1], TechPool[3],
               DropKey(DropKey(TechPool[2], "shift_start"), "shift_end")} :
        /\ vr_input = [route |-> r, technician |-> t, work_orders |-> VrWorkOrders]
        /\ violations = <<>>
        /\ algorithm = "validate_route"
        /\ work_orders = <<>>
        /\ technicians = <<>>
        /\ distance_matrix = <<>>
        /\ config = [k \in {} |-> 0]
        /\ rng = 0
        /\ pc = "new"
        /\ error = ""
        /\ v_idx = 0
        /\ assigned = {}
        /\ cur = NoRoute
        /\ routes = <<>>
        /\ total_distance = 0
        /\ total_duration = 0
        /\ result = <<>>
        /\ population = <<>>
        /\ gen = 0
        /\ convergence_history = <<>>
        /\ run = 1
        /\ prev_result = <<>>
        /\ solution = <<>>

\* a call of validate_route that returns its list
ValidateRouteReturn ==
    /\ pc = "new"
    /\ algorithm = "validate_route"
    /\ LET returned(r) ==
               /\ ~r.raised
               /\ violations' = r.violations
       IN  returned(validate_route(vr_input.route, vr_input.technician,
                                   vr_input.work_orders))
    /\ pc' = "validated"
    /\ UNCHANGED <<Inputs, GeneticState, RouteState, error, result, rng, run,
                   prev_result, solution, vr_input>>

\* a call of validate_route that check_time_window ends with a ValueError
ValidateRouteRaise ==
    /\ pc = "new"
    /\ algorithm = "validate_route"
    /\ validate_route(vr_input.route, vr_input.technician,
                      vr_input.work_orders).raised
    /\ pc' = "error"
    /\ error' = "ValueError"
    /\ UNCHANGED <<Inputs, GeneticState, RouteState, result, rng, run,
                   prev_result, solution, vr_input, violations>>

NextValidateRoute ==
    \/ ValidateRouteReturn
    \/ ValidateRouteRaise

SpecValidateRoute == InitValidateRoute /\ [][NextValidateRoute]_vars

-----------------------------------------------------------------------------
(* Properties of the results *)

IsSortedAsc(s) == \A i \in 1..(Len(s) - 1) : s[i] <= s[i + 1]

Range(s) == {s[i] : i \in DOMAIN s}

InputIds == {work_orders[i].id : i \in DOMAIN work_orders}

\* the ids that appear in the stops of the routes rs
StopIds(rs) ==
    UNION {{rs[i].stops[k].work_order_id : k \in DOMAIN rs[i].stops} : i \in DOMAIN rs}

\* the input work order of an id (ids are unique within an input)
OrderById(id) == work_orders[CHOOSE i \in DOMAIN work_orders : work_orders[i].id = id]

\* C1: in the result of a Greedy or Genetic solve the ids in route stops and
\* the ids in unassigned_orders are disjoint and together are the input ids.
PartitionOfOrders ==
    pc = "done" =>
        /\ StopIds(result.routes) \cap Range(result.unassigned_orders) = {}
        /\ StopIds(result.routes) \cup Range(result.unassigned_orders) = InputIds

\* a Genetic result with orders on routes and orders left unassigned
PartitionWitness ==
    /\ pc = "done"
    /\ algorithm = "GeneticSolver"
    /\ StopIds(result.routes) # {}
    /\ result.unassigned_orders # <<>>

\* no id on two stops of the routes rs, of one route or of two
NoDuplicateStops(rs) ==
    \A i, j \in DOMAIN rs :
        \A k \in DOMAIN rs[i].stops, l \in DOMAIN rs[j].stops :
            (i # j \/ k # l) =>
                rs[i].stops[k].work_order_id # rs[j].stops[l].work_order_id

\* C2: no work-order id is on the stops of two routes or twice on one route:
\* in every result, in Greedy across the successive route builds that share
\* the assigned set, and in Genetic for the decoding of every chromosome that
\* initialization, crossover and mutation put in the population.
UniqueAssignment ==
    /\ pc = "done" => NoDuplicateStops(result.routes)
    /\ pc = "greedy_route" => NoDuplicateStops(Append(routes, MakeRoute(v_idx, cur)))
    /\ \A i \in DOMAIN population :
           NoDuplicateStops(DecodeRoutes(population[i]).routes)

\* a Greedy result in which two technicians both have stops
UniqueAssignmentWitness ==
    /\ pc = "done"
    /\ algorithm = "GreedySolver"
    /\ Len(result.routes) = 2
    /\ result.routes[1].stops # <<>>
    /\ result.routes[2].stops # <<>>

\* no technician of the input has the skills the order requires
NobodySkilled(wo) ==
    \A t \in DOMAIN technicians : ~(wo.required_skills \subseteq technicians[t].skills)

\* C3: in every result each stop's required skills are a subset of the skills
\* of the route's technician, and an order no technician is skilled for is
\* in unassigned_orders.
SkillFeasible ==
    pc = "done" =>
        /\ \A i \in DOMAIN result.routes :
               /\ result.routes[i].technician_id = technicians[i].id
               /\ \A k \in DOMAIN result.routes[i].stops :
                      OrderById(result.routes[i].stops[k].work_order_id).required_skills
                          \subseteq technicians[i].skills
        /\ \A w \in DOMAIN work_orders :
               NobodySkilled(work_orders[w]) =>
                   work_orders[w].id \in Range(result.unassigned_orders)

\* a Greedy result with stops, an order nobody is skilled for, and an order
\* that only some of the technicians are skilled for
SkillFeasibleWitness ==
    /\ pc = "done"
    /\ algorithm = "GreedySolver"
    /\ StopIds(result.routes) # {}
    /\ \E w \in DOMAIN work_orders : NobodySkilled(work_orders[w])
    /\ \E w \in DOMAIN work_orders, t \in DOMAIN technicians :
           /\ ~NobodySkilled(work_orders[w])
           /\ ~(work_orders[w].required_skills \subseteq technicians[t].skills)

\* C4: in every returned route each stop has window start <= arrival <=
\* window end, arrival <= departure and departure <= shift end, and the
\* route's travel plus service time is at most the technician's max hours
\* (max hours >= 0, as the data model of the inputs has it).
TemporalFeasible ==
    pc = "done" =>
        \A i \in DOMAIN result.routes :
            /\ \A k \in DOMAIN result.routes[i].stops :
                   LET s == result.routes[i].stops[k]
                       wo == OrderById(s.work_order_id)
                   IN  /\ wo.time_window_start <= s.arrival_time
                       /\ s.arrival_time <= wo.time_window_end
                       /\ s.arrival_time <= s.departure_time
                       /\ s.departure_time <= technicians[i].shift_end
            /\ technicians[i].max_hours >= 0 =>
                   result.routes[i].total_duration + result.routes[i].total_work_time
                       <= Hours(technicians[i].max_hours)

\* a Genetic result with a route of two stops, the second reached by travel,
\* and a stop at which the technician waited for the window to open
TemporalFeasibleWitness ==
    /\ pc = "done"
    /\ algorithm = "GeneticSolver"
    /\ \E i \in DOMAIN result.routes :
           /\ Len(result.routes[i].stops) >= 2
           /\ result.routes[i].stops[2].travel_duration > 0
    /\ \E i \in DOMAIN result.routes : \E k \in DOMAIN result.routes[i].stops :
           LET s == result.routes[i].stops[k]
           IN  /\ s.arrival_time = OrderById(s.work_order_id).time_window_start
               /\ s.arrival_time > technicians[i].shift_start + s.travel_duration

\* C5: in every result the list unassigned_orders is in ascending order of
\* work-order id, whatever the order of the work orders in the input.
UnassignedSorted ==
    pc = "done" => IsSortedAsc(result.unassigned_orders)

\* C6: an error for invalid input (a non-positive speed, a negative matrix
\* entry, a negative max_hours) is raised before any stop is committed: a
\* solve that ends in an error has no stop on any route.
ErrorsBeforeFirstStop ==
    pc = "error" =>
        /\ cur.stops = <<>>
        /\ \A i \in DOMAIN routes : routes[i].stops = <<>>

\* the defects the claim names, read off the inputs
HasStructuralDefect ==
    \/ work_orders = <<>>
    \/ technicians = <<>>
    \/ \E i \in DOMAIN work_orders :
           ~(REQUIRED_WORK_ORDER_KEYS \subseteq DOMAIN work_orders[i])
    \/ \E i \in DOMAIN technicians :
           ~(REQUIRED_TECHNICIAN_KEYS \subseteq DOMAIN technicians[i])
    \/ Len(distance_matrix) # Len(technicians) + Len(work_orders)
    \/ \E r \in DOMAIN distance_matrix :
           Len(distance_matrix[r]) # Len(technicians) + Len(work_orders)

\* C7: validation rejects exactly the inputs with an empty work-order or
\* technician list, a missing required key, a matrix without exactly T+W
\* rows or a row without exactly T+W columns; a rejection carries an error
\* and no step of a solve runs after it.
ValidationExact ==
    /\ pc # "new" => ((pc = "rejected") <=> HasStructuralDefect)
    /\ pc = "rejected" =>
           /\ error # ""
           /\ routes = <<>> /\ cur = NoRoute /\ assigned = {} /\ v_idx = 0
           /\ population = <<>> /\ gen = 0 /\ result = <<>>
           /\ ~ENABLED Next

\* an input whose only defect is a last row that is too wide, rejected
ValidationWitness ==
    /\ pc = "rejected"
    /\ error = "matrix_columns"
    /\ Len(distance_matrix[1]) = Len(technicians) + Len(work_orders)

\* order j is unassigned and passes every check of the scan from the cursor
FeasibleNow(j) ==
    j \notin assigned /\ CandidateCheck(v_idx, cur, j).feasible

DistanceFromCursor(j) == distance_matrix[cur.current_node][j + NumTechnicians]

MeetsFourConditions(v, c, j) ==
    LET tech == technicians[v]
        wo == work_orders[j]
        travel_min == estimate_travel_time(
                          distance_matrix[c.current_node][j + NumTechnicians], AvgSpeed)
        service_min == Minutes(wo.duration_minutes)
        arrival == c.current_time + travel_min
        start == IF arrival < wo.time_window_start
                 THEN wo.time_window_start ELSE arrival
    IN  /\ wo.required_skills \subseteq tech.skills
        /\ arrival <= wo.time_window_end
        /\ start + service_min <= tech.shift_end
        /\ c.used_hours + travel_min + service_min <= Hours(tech.max_hours)

\* C9: when the construction of a route stops, no unassigned order has the
\* skills matched, arrives by its window end, departs by the shift end and
\* keeps used hours (travel + service) within max hours: an order that only
\* has to wait for its window to open is committed.
NoFeasibleOrderLeft ==
    (/\ pc = "greedy_route"
     /\ ~GreedyScan(v_idx, cur, assigned).raised
     /\ GreedyScan(v_idx, cur, assigned).best_wo_idx = 0) =>
        \A j \in DOMAIN work_orders :
            j \notin assigned => ~MeetsFourConditions(v_idx, cur, j)

\* C10: a second Genetic solve of the same inputs and configuration with
\* the same seed, run after the first, returns the result of the first.
SeededSolvesAgree ==
    (run = 2 /\ pc = "done" /\ "seed" \in DOMAIN config) => result = prev_result

\* a second seeded solve has returned routes with stops, from a generator
\* that the caller left in another state than the seed gives
SeededSolvesAgreeWitness ==
    /\ run = 2
    /\ pc = "done"
    /\ "seed" \in DOMAIN config
    /\ StopIds(result.routes) # {}
    /\ rng # SeedState(config.seed)

\* C11: the random-number source of a Genetic solve is local to the solve: a
\* seeded solve whose steps are interleaved with those of another solve
\* returns the routes, totals and unassigned list it returns when it runs alone
ParallelSolveUnaffected ==
    (pc = "done" /\ run = 2 /\ algorithm = "GeneticSolver"
        /\ "seed" \in DOMAIN config)
        => /\ result.routes = prev_result.routes
           /\ result.unassigned_orders = prev_result.unassigned_orders
           /\ result.total_distance = prev_result.total_distance
           /\ result.total_duration = prev_result.total_duration

\* C12: with elite_size >= 1 the best fitness recorded after a generation is
\* never greater than the one recorded before it, so the reported
\* final_fitness is never greater than the reported initial_fitness
FitnessNeverWorsens ==
    (algorithm = "GeneticSolver" /\ EliteSize >= 1)
        => /\ \A i \in 1..(Len(convergence_history) - 1) :
                  convergence_history[i + 1] <= convergence_history[i]
           /\ pc = "done" =>
                  result.metadata.final_fitness <= result.metadata.initial_fitness

\* a finished solve with elitism whose generations did improve the best fitness
FitnessNeverWorsensWitness ==
    /\ algorithm = "GeneticSolver"
    /\ EliteSize >= 1
    /\ pc = "done"
    /\ Len(convergence_history) = Generations + 1
    /\ Generations >= 2
    /\ result.metadata.final_fitness < result.metadata.initial_fitness

\* without elitism the best fitness of a generation can be lost
FitnessWorsensWithoutElites ==
    /\ algorithm = "GeneticSolver"
    /\ EliteSize = 0
    /\ pc = "done"
    /\ result.metadata.final_fitness > result.metadata.initial_fitness

\* C13: in every solution the CP-VRP solver returns, each visited work order
\* is on the route of a technician whose skills are a superset of the order's
\* required skills; an order no technician is skilled for is never routed
VrpSkillFeasible ==
    (algorithm = "VRPSolver" /\ pc = "done" /\ solution.found) =>
        /\ \A v \in DOMAIN result.routes :
               \A k \in DOMAIN result.routes[v].stops :
                   OrderById(result.routes[v].stops[k].work_order_id).required_skills
                       \subseteq technicians[v].skills
        /\ \A w \in DOMAIN work_orders :
               NobodySkilled(work_orders[w]) =>
                   work_orders[w].id \notin StopIds(result.routes)

\* C14: in every route the CP-VRP solver returns, a stop's arrival time is
\* the engine's cumulative time counted from the first technician's shift
\* start, and lies within the work order's time window
VrpArrivalInWindow ==
    (algorithm = "VRPSolver" /\ pc = "done" /\ solution.found) =>
        \A v \in DOMAIN result.routes :
            \A k \in DOMAIN result.routes[v].stops :
                LET stop == result.routes[v].stops[k]
                    wo == OrderById(stop.work_order_id)
                IN  /\ stop.arrival_time =
                           technicians[1].shift_start + Minutes(solution.cumul[v][k])
                    /\ wo.time_window_start <= stop.arrival_time
                    /\ stop.arrival_time <= wo.time_window_end

FoundStops ==
    {i \in DOMAIN vr_input.route :
        vr_input.route[i].work_order_id \in DOMAIN vr_input.work_orders}

RECURSIVE RouteMinutes(_)
RouteMinutes(i) ==
    IF i = 0 THEN 0
    ELSE RouteMinutes(i - 1)
         + (IF i \in FoundStops
            THEN Minutes(vr_input.work_orders[vr_input.route[i].work_order_id]
                             .duration_minutes)
                 + Get(vr_input.route[i], "travel_duration", 0)
            ELSE 0)

\* the checks that fail on the validated route, each named with its stop
FailedChecks ==
    LET route == vr_input.route
        tech == vr_input.technician
        order(i) == vr_input.work_orders[route[i].work_order_id]
    IN  {Violation("missing", i - 1) : i \in (DOMAIN route) \ FoundStops}
        \cup {Violation("skill", i - 1) :
                i \in {j \in FoundStops :
                         order(j).required_skills \ tech.skills # {}}}
        \cup {Violation("window", i - 1) :
                i \in {j \in FoundStops :
                         /\ Has(route[j], "arrival_time")
                         /\ \/ route[j].arrival_time < order(j).time_window_start
                            \/ route[j].arrival_time > order(j).time_window_end}}
        \cup {Violation("shift_start", i - 1) :
                i \in {j \in FoundStops :
                         /\ Has(route[j], "arrival_time")
                         /\ Has(tech, "shift_start")
                         /\ route[j].arrival_time < tech.shift_start}}
        \cup {Violation("shift_end", i - 1) :
                i \in {j \in FoundStops :
                         /\ Has(route[j], "departure_time")
                         /\ Has(tech, "shift_end")
                         /\ route[j].departure_time > tech.shift_end}}
        \cup (IF RouteMinutes(Len(route)) > 60 * 100 * tech.max_hours
              THEN {Violation("max_hours", -1)} ELSE {})

\* C16: validate_route returns exactly one violation per failed check (a stop
\* whose work order is missing fails that check only), so the list is empty
\* if and only if no check fails, and a stop with several failures reports
\* all of them
OneViolationPerFailedCheck ==
    pc = "validated" =>
        /\ Range(violations) = FailedChecks
        /\ Len(violations) = Cardinality(FailedChecks)
        /\ (violations = <<>>) <=> (FailedChecks = {})

\* a returned list with four violations of one stop, a missing work order
\* on the other stop, and the violation of the whole route
OneViolationPerFailedCheckWitness ==
    /\ pc = "validated"
    /\ \E i \in {0, 1} :
           /\ {Violation(c, i) : c \in {"skill", "window", "shift_start", "shift_end"}}
                  \subseteq Range(violations)
           /\ Violation("missing", 1 - i) \in Range(violations)
    /\ Violation("max_hours", -1) \in Range(violations)

\* C17: in every route returned by Greedy and Genetic the stops' sequence
\* numbers are 0, 1, ..., k-1 in list order; an order that is skipped or
\* rejected consumes no sequence number
SequencesContiguous ==
    (pc = "done" /\ algorithm \in {"GreedySolver", "GeneticSolver"}) =>
        \A i \in DOMAIN result.routes :
            \A k \in DOMAIN result.routes[i].stops :
                result.routes[i].stops[k].sequence = k - 1

\* a Genetic result with a route of several stops whose technician was also
\* given, by the decoded chromosome, an order that the decoder skipped
SequencesContiguousWitness ==
    /\ pc = "done"
    /\ algorithm = "GeneticSolver"
    /\ \E v \in DOMAIN result.routes :
           /\ Len(result.routes[v].stops) >= 2
           /\ \E w \in DOMAIN work_orders :
                  /\ population[1].assignments[w] = v
                  /\ work_orders[w].id \in Range(result.unassigned_orders)
                  /\ \E k \in DOMAIN population[1].order_sequence :
                         /\ population[1].order_sequence[k] = w
                         /\ \E l \in DOMAIN population[1].order_sequence :
                                /\ k < l
                                /\ population[1].assignments[
                                       population[1].order_sequence[l]] = v
                                /\ work_orders[population[1].order_sequence[l]].id
                                       \in StopIds(result.routes)

\* sum of the travel_distance of the first k stops
RECURSIVE StopDistanceSum(_, _)
StopDistanceSum(stops, k) ==
    IF k = 0 THEN 0
    ELSE IF k = 1 THEN stops[1].travel_distance
    ELSE LET h == k \div 2
         IN  StopDistanceSum(stops, h) + StopDistanceSum(SubSeq(stops, h + 1, k), k - h)

\* sum of the total_distance of the first k routes
RECURSIVE RouteDistanceSum(_, _)
RouteDistanceSum(rs, k) ==
    IF k = 0 THEN 0 ELSE RouteDistanceSum(rs, k - 1) + rs[k].total_distance

InputsUnchanged ==
    [][/\ work_orders' = work_orders
       /\ technicians' = technicians
       /\ distance_matrix' = distance_matrix
       /\ config' = config]_vars

\* a finished solve with an explicit configuration, several work orders in
\* an order that is not the order of priority, and stops on the routes
InputsUnchangedWitness ==
    /\ pc = "done"
    /\ algorithm \in {"GreedySolver", "GeneticSolver"}
    /\ DOMAIN config # {}
    /\ NumOrders >= 2
    /\ SortedWoIndices # SeqFrom([i \in 1..NumOrders |-> i], NumOrders)
    /\ StopIds(result.routes) # {}

-----------------------------------------------------------------------------
(* Order crossover and the order sequences of the population *)

\* seq is a permutation of the work order indices
IsPermutation(seq) ==
    Len(seq) = NumOrders /\ {seq[i] : i \in DOMAIN seq} = 1..NumOrders

\* the child for the cut start..end is a permutation that holds seq1's values
\* in the cut and, in the other positions read left to right, the values of
\* seq2 outside the cut, in seq2's order
OxChildAsStated(seq1, seq2, start, end) ==
    LET stated(child) ==
            /\ IsPermutation(child)
            /\ \A i \in start..end : child[i] = seq1[i]
            /\ SubSeq(child, 1, start - 1) \o SubSeq(child, end + 1, Len(child))
                  = SelectSeq(seq2, LAMBDA g : g \notin {seq1[i] : i \in start..end})
    IN  stated(OxChild(seq1, seq2, start, end))

-----------------------------------------------------------------------------
(* Tournament selection *)

\* C22: a tournament draws tournament_size competitors from the population,
\* also when tournament_size exceeds the population size (drawing with
\* replacement), and returns a competitor of minimum fitness among them
TournamentDrawsK ==
    (pc = "genetic_loop" /\ gen < Generations) =>
        LET drawn(competitors, winner) ==
                /\ Len(competitors.val) = TournamentSize
                /\ \E k \in DOMAIN competitors.val : competitors.val[k] = winner.val
                /\ \A k \in DOMAIN competitors.val :
                       winner.val.fitness <= competitors.val[k].fitness
        IN  drawn(Sample(rng, population, Min(TournamentSize, Len(population))),
                  TournamentSelect(rng, population, TournamentSize))

-----------------------------------------------------------------------------
(* Population size, order and elitism *)

\* number of occurrences of the chromosome c in pop
Copies(c, pop) == Cardinality({k \in DOMAIN pop : pop[k] = c})

\* C23: with 0 <= elite_size <= population_size and population_size >= 1 the
\* population has exactly population_size chromosomes and is sorted ascending
\* by fitness whenever it is replaced, and after a generation it contains
\* unchanged copies (assignments, order_sequence, fitness) of the elite_size
\* best chromosomes of the previous generation
ElitesCarried ==
    [][/\ (pc' = "genetic_loop" /\ EliteSize <= PopulationSize) =>
              /\ Len(population') = PopulationSize
              /\ \A k \in 1..(Len(population') - 1) :
                     population'[k].fitness <= population'[k + 1].fitness
       /\ (pc = "genetic_loop" /\ pc' = "genetic_loop" /\ gen' = gen + 1
           /\ EliteSize <= PopulationSize) =>
              \A k \in 1..EliteSize :
                  Copies(population[k], population')
                      >= Copies(population[k], SubSeq(population, 1, EliteSize))
      ]_vars

\* a generation with an elite has run and left a population of four in
\* which a chromosome is worse than the best
ElitesCarriedWitness ==
    /\ pc = "genetic_loop"
    /\ gen >= 1
    /\ EliteSize >= 1
    /\ Len(population) = 4
    /\ population[1].fitness < population[4].fitness

-----------------------------------------------------------------------------
(* Termination.  solve() is one sequential call: while it has not ended,
   its next statement executes.  This is weak fairness of Next, stated with
   the states in which the call has ended in place of ~ENABLED <<Next>>_vars
   (a caller is free not to solve again). *)

\* the call has ended: by a return, by an exception of the solve or by a
\* validation error
Ended == pc \in {"done", "error", "rejected"}

SpecLive == Init /\ [][Next]_vars /\ ([]<>Ended \/ []<><<Next>>_vars)

\* C24: a Genetic solve with generation count G terminates, and a solve that
\* returns has run exactly G generations, recorded the best fitness G + 1
\* times (once for the initial population, once per generation) and decoded
\* the minimum-fitness chromosome of the final population
GeneticTerminates ==
    (algorithm = "GeneticSolver" /\ pc = "new") ~>
        (/\ Ended
         /\ (algorithm = "GeneticSolver" /\ pc = "done") =>
               /\ gen = config.generations
               /\ Len(convergence_history) = config.generations + 1
               /\ result.metadata.convergence_history_length
                     = config.generations + 1
               /\ \A k \in DOMAIN population :
                      population[1].fitness <= population[k].fitness
               /\ result.routes = DecodeRoutes(population[1]).routes
               /\ result.metadata.best_fitness
                     = RoundDiv(population[1].fitness * 10, 3))

\* a returned Genetic solve with two generations whose last generation
\* changed the best fitness
GeneticTerminatesWitness ==
    /\ algorithm = "GeneticSolver"
    /\ pc = "done"
    /\ config.generations = 2
    /\ Len(convergence_history) = 3
    /\ convergence_history[3] # convergence_history[1]

\* C25: a Greedy solve terminates; each pass of a technician's while loop
\* either commits exactly one order that was unassigned or ends that
\* technician's route (or the solve, by an exception), so a technician's loop
\* makes at most W + 1 passes (its commits and the pass that ends it) and the
\* solve commits at most W orders
GreedyTerminates ==
    /\ (algorithm = "GreedySolver" /\ pc = "new") ~> Ended
    /\ [][pc = "greedy_route" =>
             \/ /\ pc' = "greedy_route" /\ v_idx' = v_idx /\ routes' = routes
                /\ Len(cur'.stops) = Len(cur.stops) + 1
                /\ \E wo_idx \in (1..NumOrders) \ assigned :
                       /\ assigned' = assigned \cup {wo_idx}
                       /\ cur'.stops[Len(cur'.stops)].work_order_id
                             = work_orders[wo_idx].id
             \/ /\ assigned' = assigned
                /\ Len(routes') = Len(routes) + 1
                /\ routes'[Len(routes')].stops = cur.stops
                /\ \/ pc' = "greedy_route" /\ v_idx' = v_idx + 1 /\ cur'.stops = <<>>
                   \/ pc' = "greedy_finish"
             \/ /\ pc' = "error" /\ assigned' = assigned /\ routes' = routes
                /\ cur' = cur]_vars
    /\ [](algorithm = "GreedySolver" =>
             /\ Len(cur.stops) + 1 <= NumOrders + 1
             /\ Cardinality(assigned) <= NumOrders
             /\ Cardinality(assigned) = Len(cur.stops) + Cardinality(AssignedIds(routes)))

\* a returned Greedy solve of three orders and two technicians that
\* committed every order
GreedyTerminatesWitness ==
    /\ algorithm = "GreedySolver"
    /\ pc = "done"
    /\ NumOrders = 3
    /\ NumTechnicians = 2
    /\ Cardinality(assigned) = 3

-----------------------------------------------------------------------------
(* Order of the validation errors and the content of the message *)

\* zero, or two work orders and zero or two technicians, each record with or
\* without some of its keys, and a matrix of zeros with a row more or less
\* than expected and possibly one row (other) of one entry more
InitValidation ==
    LET KeyDefects == {{}, {"priority"}, {"id"}, {"id", "lat"}}
        TechKeyDefects == {{}, {"skills"}, {"id", "name"}}
        DropKeys(rec, keys) == [k \in (DOMAIN rec) \ keys |-> rec[k]]
        width(r, size, other) == IF r = other THEN size + 1 ELSE size
        ShapedMatrix(rows, size, other) ==
            SeqFrom([r \in 1..rows |->
                        SeqFrom([c \in 1..width(r, size, other) |-> 0],
                                width(r, size, other))], rows)
    IN  \E alg \in Algorithms,
           wd \in [1..2 -> KeyDefects] \cup {<<>>},
           td \in [1..2 -> TechKeyDefects] \cup {<<>>},
           rows \in -1..1, other \in 0..4 :
            LET wos == SeqFrom([i \in DOMAIN wd |->
                                   DropKeys(PickOrders(<<1, 4>>)[i], wd[i])], Len(wd))
                techs == SeqFrom([i \in DOMAIN td |->
                                     DropKeys(PickTechs(<<1, 2>>)[i], td[i])], Len(td))
                expected_size == Len(wos) + Len(techs)
            IN  /\ expected_size + rows >= 0
                /\ other <= expected_size + rows
                /\ algorithm = alg
                /\ work_orders = wos
                /\ technicians = techs
                /\ distance_matrix =
                      ShapedMatrix(expected_size + rows, expected_size, other)
                /\ config = [k \in {} |-> 0]
                /\ rng = 0
                /\ Idle

\* BaseSolver.__init__ on these inputs: the ValueError is kept with the
\* values of its message
ValidateInputs ==
    /\ pc = "new"
    /\ LET raised(err) ==
               /\ error' = err
               /\ pc' = IF err.kind = "" THEN "ready" ELSE "rejected"
       IN  raised(ValidationMessage(work_orders, technicians, distance_matrix))
    /\ UNCHANGED <<Inputs, OtherState, RouteState, GeneticState, result, rng, run,
                   prev_result>>

SpecValidation == InitValidation /\ [][ValidateInputs]_vars

\* C26: the error raised is the first, in the order empty work orders, empty
\* technicians, work order missing a key, technician missing a key, matrix
\* row count, matrix row width, whose defect the input has; a missing key is
\* reported before any defect of the matrix; the error names the least index
\* (counted from 0) of a record of its list missing a key, that record's id
\* ("UNKNOWN" when it has none) and exactly the required keys it lacks; for a
\* row of wrong width it names the least such row
ValidationOrder ==
    pc \in {"ready", "rejected"} =>
        LET wos == work_orders
            techs == technicians
            dm == distance_matrix
            size == Len(wos) + Len(techs)
            wo_bad == {i \in DOMAIN wos : ~(REQUIRED_WORK_ORDER_KEYS \subseteq DOMAIN wos[i])}
            tech_bad == {i \in DOMAIN techs : ~(REQUIRED_TECHNICIAN_KEYS \subseteq DOMAIN techs[i])}
            row_bad == {r \in DOMAIN dm : Len(dm[r]) # size}
            defects == <<Len(wos) = 0, Len(techs) = 0, wo_bad # {}, tech_bad # {},
                         Len(dm) # size, row_bad # {}>>
            kinds == <<"empty_work_orders", "empty_technicians",
                       "work_order_missing_keys", "technician_missing_keys",
                       "matrix_rows", "matrix_columns">>
            names(records, bad, required) ==
                /\ error.index + 1 \in bad
                /\ \A i \in bad : error.index + 1 <= i
                /\ IF "id" \in DOMAIN records[error.index + 1]
                   THEN error.id = records[error.index + 1].id
                   ELSE error.id = "UNKNOWN"
                /\ error.missing = {k \in required : k \notin DOMAIN records[error.index + 1]}
                /\ error.missing # {}
        IN  /\ (pc = "ready") = (\A d \in 1..6 : ~defects[d])
            /\ pc = "ready" => error.kind = ""
            /\ pc = "rejected" =>
                  \E d \in 1..6 :
                      /\ defects[d]
                      /\ \A e \in 1..(d - 1) : ~defects[e]
                      /\ error.kind = kinds[d]
            /\ error.kind = ValidationError(wos, techs, dm)
            /\ (pc = "rejected" /\ (wo_bad # {} \/ tech_bad # {})
                    /\ Len(wos) > 0 /\ Len(techs) > 0) =>
                  error.kind \in {"work_order_missing_keys", "technician_missing_keys"}
            /\ error.kind = "work_order_missing_keys" =>
                  names(wos, wo_bad, REQUIRED_WORK_ORDER_KEYS)
            /\ error.kind = "technician_missing_keys" =>
                  names(techs, tech_bad, REQUIRED_TECHNICIAN_KEYS)
            /\ error.kind = "matrix_rows" =>
                  error.found = Len(dm) /\ error.expected = size
            /\ error.kind = "matrix_columns" =>
                  /\ error.index + 1 \in row_bad
                  /\ \A r \in row_bad : error.index + 1 <= r
                  /\ error.found = Len(dm[error.index + 1])
                  /\ error.expected = size

\* a rejected input in which both work orders miss keys (the second one its
\* id), a technician misses a key, the matrix has a row too many and a row
\* of another width
ValidationOrderWitness ==
    /\ pc = "rejected"
    /\ Len(work_orders) = 2
    /\ Len(technicians) = 2
    /\ MissingKeys(work_orders[1], REQUIRED_WORK_ORDER_KEYS) = {"priority"}
    /\ "id" \notin DOMAIN work_orders[2]
    /\ MissingKeys(technicians[2], REQUIRED_TECHNICIAN_KEYS) # {}
    /\ Len(distance_matrix) = 5
    /\ \E r \in DOMAIN distance_matrix : Len(distance_matrix[r]) = 5
    /\ error.kind = "work_order_missing_keys"
    /\ error.index = 0
    /\ error.id = 5

-----------------------------------------------------------------------------
(* Greedy routes under the Genetic decoder *)

\* the Greedy route of technician v as the Genetic decoder builds it from
\* the route's work orders in the route's order: st = [c, raised]
DecodedGreedyRoute(v) ==
    LET stops == result.routes[v].stops
        index(k) == CHOOSE i \in DOMAIN work_orders :
                        work_orders[i].id = stops[k].work_order_id
        wo_indices == IF Len(stops) = 0 THEN <<>>
                      ELSE SeqFrom([k \in DOMAIN stops |-> index(k)], Len(stops))
    IN  DecodeRoute(v, [c |-> StartRoute(v), raised |-> FALSE], wo_indices)

\* C27: when a Greedy solve has returned, the Genetic decoder, given each
\* technician's Greedy stops in their order, raises nothing, drops no stop
\* and builds the Greedy route itself: the same stops with their times and
\* distances and the same totals and utilization
GreedyRoutesDecode ==
    (algorithm = "GreedySolver" /\ pc = "done") =>
        \A v \in 1..NumTechnicians :
            /\ ~DecodedGreedyRoute(v).raised
            /\ Len(DecodedGreedyRoute(v).c.stops) = Len(result.routes[v].stops)
            /\ MakeRoute(v, DecodedGreedyRoute(v).c) = result.routes[v]

-----------------------------------------------------------------------------
(* Penalties of the fitness function against the travel distance *)

\* the route of technician v through wo_indices, walked as _evaluate_fitness
\* walks it from node at time with used hours, has a violation: a skill the
\* technician lacks, an arrival after the end of a window, a departure
\* after the end of the shift, or more hours than max_hours
RECURSIVE RouteViolates(_, _, _, _, _)
RouteViolates(v, node, time, used, wo_indices) ==
    IF wo_indices = <<>>
    THEN used > Hours(Get(technicians[v], "max_hours", 8))
    ELSE LET wo == work_orders[Head(wo_indices)]
             wo_node == Head(wo_indices) + NumTechnicians
             travel_min == estimate_travel_time(distance_matrix[node][wo_node], AvgSpeed)
             service_min == Minutes(Get(wo, "duration_minutes", 0))
             arrival == IF time + travel_min < wo.time_window_start
                        THEN wo.time_window_start ELSE time + travel_min
         IN  \/ ~CheckSkillMatch(technicians[v], wo)
             \/ arrival > wo.time_window_end
             \/ arrival + service_min > technicians[v].shift_end
             \/ RouteViolates(v, wo_node, arrival + service_min,
                              used + travel_min + service_min, Tail(wo_indices))

Violates(chromo) ==
    \E v \in 1..NumTechnicians :
        RouteViolates(v, v, technicians[v].shift_start, 0, TechOrders(chromo, v))

\* C28: of two evaluated chromosomes of a population, one with a violation
\* and one with none, the one with the violation has the strictly greater
\* fitness
ViolationCostsMore ==
    (algorithm = "GeneticSolver" /\ pc = "genetic_loop") =>
        \A i, j \in DOMAIN population :
            (Violates(population[i]) /\ ~Violates(population[j]))
                => population[i].fitness > population[j].fitness

-----------------------------------------------------------------------------
(* The fitness function and the decoder on feasibility *)

\* the penalty part of the fitness of chromo
PenaltyOf(chromo) ==
    LET RECURSIVE sum(_)
        sum(v) == IF v = 0 THEN 0
                  ELSE sum(v - 1) + FitnessOfTechnician(chromo, v).penalty
    IN  sum(NumTechnicians)

\* the stops the decoder keeps of chromo
KeptStops(chromo) == StopIds(DecodeRoutes(chromo).routes)

\* C29: for every evaluated chromosome of a population the penalty is zero
\* (the fitness is the travel distance alone) exactly if the decoder keeps
\* every work order of the chromosome
FitnessAgreesWithDecoder ==
    (algorithm = "GeneticSolver" /\ pc = "genetic_loop") =>
        \A i \in DOMAIN population :
            (PenaltyOf(population[i]) = 0)
                <=> (Cardinality(KeptStops(population[i])) = NumOrders)

-----------------------------------------------------------------------------
(* Greedy routes under validate_route *)

\* validate_route on the stops of the Greedy route of technician v, the
\* technician and the map of the input work orders by id
ValidatedGreedyRoute(v) ==
    validate_route(result.routes[v].stops, technicians[v],
                   [id \in {work_orders[i].id : i \in DOMAIN work_orders} |->
                       OrderById(id)])

\* C30: when a Greedy solve on input whose windows and shifts are not
\* inverted and whose hour limits are not negative has returned,
\* validate_route raises nothing and finds no violation in any of the routes
GreedyRoutesValid ==
    (/\ algorithm = "GreedySolver"
     /\ pc = "done"
     /\ \A i \in DOMAIN work_orders :
            work_orders[i].time_window_start <= work_orders[i].time_window_end
     /\ \A v \in DOMAIN technicians :
            /\ technicians[v].shift_start <= technicians[v].shift_end
            /\ technicians[v].max_hours >= 0)
        => \A v \in DOMAIN result.routes :
               /\ ~ValidatedGreedyRoute(v).raised
               /\ ValidatedGreedyRoute(v).violations = <<>>

=============================================================================
